---- MODULE Spec2Model ----
(***************************************************************************)
(* The yum/dnf configuration-file mutation engine of tripleo-repos         *)
(* (plugins/module_utils/tripleo_repos/yum_config).                        *)
(*                                                                         *)
(* The filesystem is a map from absolute paths to files.  A file is        *)
(* either missing or holds an INI document (section -> option -> value),   *)
(* together with what os.access(W_OK) and the INI parser say about it.     *)
(* Every behaviour is one call of one public method of one config object   *)
(* on an initial filesystem; the call is executed as the code executes     *)
(* it, every open-for-writing being appended to a write log.               *)
(*                                                                         *)
(* configparser is a library: it is modelled as a store of sections and    *)
(* options.  Sections are visited in SectionOrder, directory entries are   *)
(* listed in NameOrder.  from_url is None outside the calls of SpecUrl.     *)
(***************************************************************************)
EXTENDS Integers, Sequences, FiniteSets, TLC

VARIABLES obj, env, fs, pre, call, res, log, calls, raised

vars == <<obj, env, fs, pre, call, res, log, calls, raised>>

(* ------------------------------ bounds --------------------------------- *)

\* largest number of options in a caller-supplied option map
MaxOpts == 2

(* ----------------------------- constants ------------------------------- *)

YUM_REPO_SUPPORTED_OPTIONS ==
    {"baseurl", "cost", "enabled", "exclude", "excludepkgs", "gpgcheck",
     "gpgkey", "includepkgs", "metalink", "mirrorlist", "module_hotfixes",
     "name", "priority", "skip_if_unavailable"}

YUM_REPO_DIR == "/etc/yum.repos.d"

YUM_REPO_FILE_EXTENSION == ".repo"

\* the process working directory, against which relative paths resolve
Cwd == "cwd"

(* --------------------------- value domains ----------------------------- *)

Sections == {"s1", "s2"}

SectionOrder == <<"main", "s1", "s2", "appstream", "baseos">>

\* the variants of a compose manifest, in the order of its JSON document
VariantOrder == <<"AppStream", "BaseOS">>

Variants == {"AppStream", "BaseOS"}

\* the compose id of the manifest
ComposeId == "CentOS-Stream-9-20220101.0"

\* "-".join([compose_id, variant]) + '.repo'
RepoFilename(id, variant) == id \o "-" \o variant \o ".repo"

\* the files of the repo directory of a compose run: one per variant and
\* one that is not of the compose
ComposeNames ==
    {RepoFilename(ComposeId, v) : v \in Variants} \cup {"other.repo"}

NameOrder ==
    <<"a.repo", "b.repo", "c.txt", RepoFilename(ComposeId, "AppStream"),
      RepoFilename(ComposeId, "BaseOS"), "other.repo">>

\* option names a caller may pass: two whitelisted ones and one that is not
OptKeys == {"name", "enabled", "bogus"}

\* option values a caller may pass; "$V" is an environment reference
OptValues == {"0", "$V"}

EmptyMap == [k \in {} |-> ""]

EmptyCfg == [s \in {} |-> EmptyMap]

OptMaps ==
    UNION {[D -> OptValues] : D \in {K \in SUBSET OptKeys : Cardinality(K) <= MaxOpts}}

\* a path as the caller writes it; a relative path has dir = Cwd
Rel(n) == [abs |-> FALSE, dir |-> Cwd, name |-> n]

Abs(d, n) == [abs |-> TRUE, dir |-> d, name |-> n]

\* file_path=None
NoPath == [abs |-> FALSE, dir |-> "", name |-> ""]

Key(p) == <<p.dir, p.name>>

AbsPaths ==
    {<<Cwd, "a.repo">>, <<YUM_REPO_DIR, "a.repo">>,
     <<YUM_REPO_DIR, "b.repo">>, <<YUM_REPO_DIR, "c.txt">>}

NoFile == [exists |-> FALSE, writable |-> FALSE, parses |-> TRUE, cfg |-> EmptyCfg]

IniFile(c) == [exists |-> TRUE, writable |-> TRUE, parses |-> TRUE, cfg |-> c]

File(f, p) == IF Key(p) \in DOMAIN f THEN f[Key(p)] ELSE NoFile

(* ------------------------- library behaviour --------------------------- *)

\* str.endswith on the modelled file names
Endswith(n, ext) ==
    CASE ext = ".repo" -> n \in {"a.repo", "b.repo"} \cup ComposeNames
      [] ext = ".txt"  -> n = "c.txt"
      [] OTHER         -> FALSE

\* os.path.join(dir_path, file_path): an absolute second argument wins
Join(d, p) == IF p.abs THEN p ELSE Abs(d, p.name)

\* os.path.expandvars: a reference to an unset variable is left as written
Expandvars(e, v) == IF v = "$V" /\ e # "unset" THEN e ELSE v

\* os.listdir(dir_path)
Listdir(f, d) ==
    SelectSeq(NameOrder, LAMBDA n : <<d, n>> \in DOMAIN f /\ f[<<d, n>>].exists)

\* a merge that drops the keys both maps have
DictUpdateExclusive(a, b) ==
    [k \in ((DOMAIN a) \ (DOMAIN b)) \cup ((DOMAIN b) \ (DOMAIN a)) |->
        IF k \in DOMAIN b THEN b[k] ELSE a[k]]

\* dict.update
DictUpdate(a, b) ==
    [k \in (DOMAIN a) \cup (DOMAIN b) |-> IF k \in DOMAIN b THEN b[k] ELSE a[k]]

\* config.sections()
ConfigSections(c) == SelectSeq(SectionOrder, LAMBDA s : s \in DOMAIN c)

\* open(file_path, 'w') followed by f.write: the file now holds document c
WriteFile(st, p, c) ==
    [st EXCEPT !.fs = [@ EXCEPT ![Key(p)] = IniFile(c)],
               !.log = Append(@, [path |-> Key(p), cfg |-> c])]

\* leave a method: "ok" is a normal return, anything else a raised exception
Raise(st, e) ==
    [fs |-> st.fs, log |-> st.log, calls |-> st.calls, res |-> e,
     raised |-> IF e = "ok" THEN st.raised ELSE Append(st.raised, e)]

\* enter a method of the engine
Called(st, m) == [st EXCEPT !.calls = Append(@, m)]

(* ------------------------ TripleOYumConfig ----------------------------- *)

validated_file_path(f, p) == File(f, p).exists /\ File(f, p).writable

\* save_section_to_file that replaces the section by the updates
save_section_to_file_replace(st, file_path, config, section, updates) ==
    LET merged == [config EXCEPT ![section] = updates]
    IN  [st |-> WriteFile(st, file_path, merged), config |-> merged]

\* save_section_to_file (python 3): merge, then rewrite the whole file
save_section_to_file(st, file_path, config, section, updates) ==
    LET merged == [config EXCEPT ![section] = DictUpdate(@, updates)]
    IN  [st |-> WriteFile(st, file_path, merged), config |-> merged]

\* the candidates of _read_config_file: the path as given, then the path
\* under dir_path
file_paths(o, file_path) ==
    IF o.dir_path # ""
    THEN <<file_path, Join(o.dir_path, file_path)>>
    ELSE <<file_path>>

\* _read_config_file without its check of the section
_read_config_file_any_section(o, f, file_path, section) ==
    LET valid == SelectSeq(file_paths(o, file_path),
                           LAMBDA p : validated_file_path(f, p))
    IN  IF valid = <<>>
        THEN [err |-> "NotFound", path |-> NoPath, config |-> EmptyCfg]
        ELSE LET p == Head(valid)
             IN  IF ~File(f, p).parses
                 THEN [err |-> "ParseError", path |-> p, config |-> EmptyCfg]
                 ELSE [err |-> "ok", path |-> p, config |-> File(f, p).cfg]

\* _read_config_file looking for the section before it looks at the parse
_read_config_file_section_first(o, f, file_path, section) ==
    LET valid == SelectSeq(file_paths(o, file_path),
                           LAMBDA p : validated_file_path(f, p))
    IN  IF valid = <<>>
        THEN [err |-> "NotFound", path |-> NoPath, config |-> EmptyCfg]
        ELSE LET p == Head(valid)
             IN  IF section # "" /\ section \notin DOMAIN File(f, p).cfg
                 THEN [err |-> "InvalidSection", path |-> p,
                       config |-> File(f, p).cfg]
                 ELSE IF ~File(f, p).parses
                 THEN [err |-> "ParseError", path |-> p, config |-> EmptyCfg]
                 ELSE [err |-> "ok", path |-> p, config |-> File(f, p).cfg]

\* _read_config_file; section = "" is section=None
_read_config_file(o, f, file_path, section) ==
    LET valid == SelectSeq(file_paths(o, file_path),
                           LAMBDA p : validated_file_path(f, p))
    IN  IF valid = <<>>
        THEN [err |-> "NotFound", path |-> NoPath, config |-> EmptyCfg]
        ELSE LET p == Head(valid)
             IN  IF ~File(f, p).parses
                 THEN [err |-> "ParseError", path |-> p, config |-> EmptyCfg]
                 ELSE IF section # "" /\ section \notin DOMAIN File(f, p).cfg
                 THEN [err |-> "InvalidSection", path |-> p,
                       config |-> File(f, p).cfg]
                 ELSE [err |-> "ok", path |-> p, config |-> File(f, p).cfg]

\* _get_config_files without its os.access check
_get_config_files_unwritable_too(o, f, section) ==
    IF section # "" /\ o.dir_path # ""
    THEN LET Keep(n) ==
                 /\ (o.file_extension # "" => Endswith(n, o.file_extension))
                 /\ f[<<o.dir_path, n>>].parses
                 /\ section \in DOMAIN f[<<o.dir_path, n>>].cfg
             kept == SelectSeq(Listdir(f, o.dir_path), Keep)
         IN  [i \in 1..Len(kept) |-> Abs(o.dir_path, kept[i])]
    ELSE <<>>

\* _get_config_files
_get_config_files(o, f, section) ==
    IF section # "" /\ o.dir_path # ""
    THEN LET Keep(n) ==
                 /\ (o.file_extension # "" => Endswith(n, o.file_extension))
                 /\ f[<<o.dir_path, n>>].writable
                 /\ f[<<o.dir_path, n>>].parses
                 /\ section \in DOMAIN f[<<o.dir_path, n>>].cfg
             kept == SelectSeq(Listdir(f, o.dir_path), Keep)
         IN  [i \in 1..Len(kept) |-> Abs(o.dir_path, kept[i])]
    ELSE <<>>

\* the whitelist check that opens update_section, add_section and
\* update_all_sections
ValidOptions(o, d) == o.valid_options = {} \/ DOMAIN d \subseteq o.valid_options

\* the loop of update_section stopping after its first file
UpdateFirstFile(o, st, files, section, set_dict) ==
    IF files = <<>>
    THEN Raise(st, "ok")
    ELSE LET r == _read_config_file(o, st.fs, Head(files), section)
         IN  IF r.err # "ok"
             THEN Raise(st, r.err)
             ELSE Raise(save_section_to_file(st, r.path, r.config, section,
                                             set_dict).st, "ok")

\* the loop "for file in files" of update_section
RECURSIVE UpdateFiles(_, _, _, _, _)
UpdateFiles(o, st, files, section, set_dict) ==
    IF files = <<>>
    THEN Raise(st, "ok")
    ELSE LET r == _read_config_file(o, st.fs, Head(files), section)
         IN  IF r.err # "ok"
             THEN Raise(st, r.err)
             ELSE UpdateFiles(o,
                      save_section_to_file(st, r.path, r.config, section,
                                           set_dict).st,
                      Tail(files), section, set_dict)

\* update_section searching the directory even when a file path is given
update_section_search(o, e, st0, section, set_dict, file_path) ==
    LET st == Called(st0, "update_section")
        files == _get_config_files(o, st.fs, section)
        expanded == [k \in DOMAIN set_dict |-> Expandvars(e, set_dict[k])]
    IN  IF ~ValidOptions(o, set_dict)
        THEN Raise(st, "InvalidOption")
        ELSE IF files = <<>>
        THEN Raise(st, "NotFound")
        ELSE UpdateFiles(o, st, files, section, expanded)

update_section(o, e, st0, section, set_dict, file_path) ==
    LET st == Called(st0, "update_section")
        files == IF file_path # NoPath
                 THEN <<file_path>>
                 ELSE _get_config_files(o, st.fs, section)
        expanded == [k \in DOMAIN set_dict |-> Expandvars(e, set_dict[k])]
    IN  IF ~ValidOptions(o, set_dict)
        THEN Raise(st, "InvalidOption")
        ELSE IF files = <<>>
        THEN Raise(st, "NotFound")
        ELSE UpdateFiles(o, st, files, section, expanded)

\* add_section without its check that the section is new
add_section_unchecked(o, e, st0, section, add_dict, file_path) ==
    LET st == Called(st0, "add_section")
        r == _read_config_file(o, st.fs, file_path, "")
        expanded == [k \in DOMAIN add_dict |-> Expandvars(e, add_dict[k])]
        added == [s \in (DOMAIN r.config) \cup {section} |->
                     IF s = section THEN EmptyMap ELSE r.config[s]]
    IN  IF ~ValidOptions(o, add_dict)
        THEN Raise(st, "InvalidOption")
        ELSE IF r.err # "ok"
        THEN Raise(st, r.err)
        ELSE Raise(save_section_to_file(st, r.path, added, section,
                                        expanded).st, "ok")

\* add_section that writes a document holding the new section alone
add_section_fresh_document(o, e, st0, section, add_dict, file_path) ==
    LET st == Called(st0, "add_section")
        r == _read_config_file(o, st.fs, file_path, "")
        expanded == [k \in DOMAIN add_dict |-> Expandvars(e, add_dict[k])]
        added == [s \in {section} |-> EmptyMap]
    IN  IF ~ValidOptions(o, add_dict)
        THEN Raise(st, "InvalidOption")
        ELSE IF r.err # "ok"
        THEN Raise(st, r.err)
        ELSE IF section \in DOMAIN r.config
        THEN Raise(st, "InvalidSection")
        ELSE Raise(save_section_to_file(st, r.path, added, section,
                                        expanded).st, "ok")

add_section(o, e, st0, section, add_dict, file_path) ==
    LET st == Called(st0, "add_section")
        r == _read_config_file(o, st.fs, file_path, "")
        expanded == [k \in DOMAIN add_dict |-> Expandvars(e, add_dict[k])]
        added == [s \in (DOMAIN r.config) \cup {section} |->
                     IF s = section THEN EmptyMap ELSE r.config[s]]
    IN  IF ~ValidOptions(o, add_dict)
        THEN Raise(st, "InvalidOption")
        ELSE IF r.err # "ok"
        THEN Raise(st, r.err)
        ELSE IF section \in DOMAIN r.config
        THEN Raise(st, "InvalidSection")
        ELSE Raise(save_section_to_file(st, r.path, added, section,
                                        expanded).st, "ok")

\* the loop "for section in config.sections()" of update_all_sections:
\* the same config object is updated and the file rewritten once per section
RECURSIVE UpdateSections(_, _, _, _, _)
UpdateSections(st, file_path, config, sections, set_dict) ==
    IF sections = <<>>
    THEN Raise(st, "ok")
    ELSE LET s == save_section_to_file(st, file_path, config, Head(sections),
                                       set_dict)
         IN  UpdateSections(s.st, file_path, s.config, Tail(sections), set_dict)

\* update_all_sections that stops after the first section
update_all_sections_first_only(o, st0, set_dict, file_path) ==
    LET st == Called(st0, "update_all_sections")
        r == _read_config_file(o, st.fs, file_path, "")
    IN  IF ~ValidOptions(o, set_dict)
        THEN Raise(st, "InvalidOption")
        ELSE IF r.err # "ok"
        THEN Raise(st, r.err)
        ELSE UpdateSections(st, r.path, r.config,
                            IF ConfigSections(r.config) = <<>> THEN <<>>
                            ELSE <<Head(ConfigSections(r.config))>>,
                            set_dict)

update_all_sections(o, st0, set_dict, file_path) ==
    LET st == Called(st0, "update_all_sections")
        r == _read_config_file(o, st.fs, file_path, "")
    IN  IF ~ValidOptions(o, set_dict)
        THEN Raise(st, "InvalidOption")
        ELSE IF r.err # "ok"
        THEN Raise(st, r.err)
        ELSE UpdateSections(st, r.path, r.config, ConfigSections(r.config),
                            set_dict)

(* ----------------------- TripleOYumRepoConfig -------------------------- *)

\* the enabled translation with "1" and "0" exchanged
WithEnabledSwapped(d, enabled) ==
    IF enabled # "None"
    THEN DictUpdate(d, [k \in {"enabled"} |-> IF enabled = "True" THEN "0" ELSE "1"])
    ELSE d

\* enabled is "None", "True" or "False"
WithEnabled(d, enabled) ==
    IF enabled # "None"
    THEN DictUpdate(d, [k \in {"enabled"} |-> IF enabled = "True" THEN "1" ELSE "0"])
    ELSE d

repo_update_section(o, e, st, section, set_dict, file_path, enabled) ==
    LET update_dict == WithEnabled(DictUpdate(EmptyMap, set_dict), enabled)
    IN  IF update_dict # EmptyMap
        THEN update_section(o, e, st, section, update_dict, file_path)
        ELSE Raise(st, "ok")

repo_add_section(o, e, st, section, add_dict, file_path, enabled) ==
    LET update_dict == WithEnabled(DictUpdate(EmptyMap, add_dict), enabled)
    IN  add_section(o, e, st, section, update_dict, file_path)

\* "with open(file_path, 'w+'): pass": creates or truncates the file
OpenTruncate(st, p) ==
    IF File(st.fs, p).exists /\ ~File(st.fs, p).writable
    THEN Raise(st, "PermissionError")
    ELSE Raise(WriteFile(st, p, EmptyCfg), "ok")

\* add_or_update_section that never creates: NotFound always propagates
add_or_update_section_no_create(o, e, st, section, set_dict, file_path, enabled, create_if_not_exists) ==
    LET new_set_dict == IF "name" \notin DOMAIN set_dict
                        THEN DictUpdate(set_dict, [k \in {"name"} |-> section])
                        ELSE set_dict
        upd == repo_update_section(o, e, st, section, new_set_dict, file_path,
                                   enabled)
    IN  IF upd.res = "InvalidSection"
        THEN repo_add_section(o, e, upd, section, new_set_dict, file_path,
                              enabled)
        ELSE upd

\* add_or_update_section that creates whatever its arguments say
add_or_update_section_always_create(o, e, st, section, set_dict, file_path, enabled, create_if_not_exists) ==
    LET new_set_dict == IF "name" \notin DOMAIN set_dict
                        THEN DictUpdate(set_dict, [k \in {"name"} |-> section])
                        ELSE set_dict
        upd == repo_update_section(o, e, st, section, new_set_dict, file_path,
                                   enabled)
        opened == OpenTruncate(upd, file_path)
    IN  CASE upd.res = "NotFound" ->
                 IF opened.res # "ok"
                 THEN opened
                 ELSE repo_add_section(o, e, opened, section, new_set_dict,
                                       file_path, enabled)
          [] upd.res = "InvalidSection" ->
                 repo_add_section(o, e, upd, section, new_set_dict, file_path,
                                  enabled)
          [] OTHER -> upd

add_or_update_section(o, e, st, section, set_dict, file_path, enabled, create_if_not_exists) ==
    LET new_set_dict == IF "name" \notin DOMAIN set_dict
                        THEN DictUpdate(set_dict, [k \in {"name"} |-> section])
                        ELSE set_dict
        upd == repo_update_section(o, e, st, section, new_set_dict, file_path,
                                   enabled)
        opened == OpenTruncate(upd, file_path)
    IN  CASE upd.res = "NotFound" ->
                 IF ~create_if_not_exists \/ file_path = NoPath
                 THEN upd
                 ELSE IF opened.res # "ok"
                 THEN opened
                 ELSE repo_add_section(o, e, opened, section, new_set_dict,
                                       file_path, enabled)
          [] upd.res = "InvalidSection" ->
                 repo_add_section(o, e, upd, section, new_set_dict, file_path,
                                  enabled)
          [] OTHER -> upd

(* -------------------- TripleOYumComposeRepoConfig ---------------------- *)

compose_add_section(o, e, st, section, add_dict, file_path) ==
    LET opened == IF ~File(st.fs, file_path).exists
                  THEN OpenTruncate(st, file_path)
                  ELSE Raise(st, "ok")
    IN  IF opened.res # "ok"
        THEN opened
        ELSE add_section(o, e, opened, section, add_dict, file_path)

compose_update_section(o, e, st, section, set_dict, enabled, file_path) ==
    LET update_dict == WithEnabled(set_dict, enabled)
    IN  IF update_dict # EmptyMap
        THEN update_section(o, e, st, section, update_dict, file_path)
        ELSE Raise(st, "ok")

compose_update_all_sections(o, st, file_path, set_dict, enabled) ==
    LET update_dict == WithEnabled(set_dict, enabled)
    IN  IF update_dict # EmptyMap
        THEN update_all_sections(o, st, update_dict, file_path)
        ELSE Raise(st, "ok")

(* ------------------------------ objects -------------------------------- *)

\* TripleOYumConfig(valid_options, dir_path, file_extension)
BaseConfig(w, d, x) ==
    [cls |-> "base", valid_options |-> w, dir_path |-> d, file_extension |-> x]

\* TripleOYumRepoConfig()
RepoConfig ==
    [cls |-> "repo", valid_options |-> YUM_REPO_SUPPORTED_OPTIONS,
     dir_path |-> YUM_REPO_DIR, file_extension |-> YUM_REPO_FILE_EXTENSION]

\* a constructed TripleOYumComposeRepoConfig
ComposeConfig ==
    [cls |-> "compose", valid_options |-> YUM_REPO_SUPPORTED_OPTIONS,
     dir_path |-> YUM_REPO_DIR, file_extension |-> YUM_REPO_FILE_EXTENSION]

Objects ==
    {BaseConfig(YUM_REPO_SUPPORTED_OPTIONS, YUM_REPO_DIR, ".repo"),
     BaseConfig({}, YUM_REPO_DIR, ""),
     BaseConfig({}, "", ""),
     RepoConfig, ComposeConfig}

(* ------------------------- initial filesystems ------------------------- *)

OptsX == [k \in {"name", "enabled"} |-> "0"]

OptsY == [k \in {"enabled"} |-> "1"]

CfgS1 == [s \in {"s1"} |-> OptsX]

CfgS1S2 == [s \in {"s1", "s2"} |-> IF s = "s1" THEN OptsX ELSE OptsY]

InitFiles(k) ==
    CASE k = <<YUM_REPO_DIR, "a.repo">> ->
             {NoFile, IniFile(EmptyCfg), IniFile(CfgS1), IniFile(CfgS1S2),
              [IniFile(CfgS1) EXCEPT !.writable = FALSE],
              [IniFile(EmptyCfg) EXCEPT !.parses = FALSE]}
      [] k = <<YUM_REPO_DIR, "b.repo">> ->
             {NoFile, IniFile([s \in {"s1"} |-> OptsY]),
              IniFile([s \in {"s2"} |-> OptsY]),
              [IniFile([s \in {"s1"} |-> OptsY]) EXCEPT !.writable = FALSE]}
      [] k = <<Cwd, "a.repo">> ->
             {NoFile, IniFile([s \in {"s1"} |-> OptsY])}
      [] OTHER -> {IniFile(CfgS1)}

InitFS == {f \in [AbsPaths -> UNION {InitFiles(k) : k \in AbsPaths}] :
              \A k \in AbsPaths : f[k] \in InitFiles(k)}

\* the paths a caller passes as file_path
InPaths == {Rel("a.repo"), Abs(YUM_REPO_DIR, "b.repo")}

Enableds == {"None", "True", "False"}

(* ------------------------------ the calls ------------------------------ *)

NoCall ==
    [op |-> "none", section |-> "", set_dict |-> EmptyMap, file_path |-> NoPath,
     enabled |-> "None", create |-> FALSE]

Init ==
    /\ obj \in Objects
    /\ env \in {"unset", "1"}
    /\ fs \in InitFS
    /\ pre = fs
    /\ call = NoCall
    /\ res = "none"
    /\ log = <<>>
    /\ calls = <<>>
    /\ raised = <<>>

St0 == [fs |-> fs, log |-> <<>>, calls |-> <<>>, raised |-> <<>>]

Finish(c, out) ==
    /\ call' = c
    /\ pre' = fs
    /\ fs' = out.fs
    /\ res' = out.res
    /\ log' = out.log
    /\ calls' = out.calls
    /\ raised' = out.raised
    /\ UNCHANGED <<obj, env>>

Idle(c) == call.op = "none" /\ obj.cls = c

BaseUpdateSection ==
    /\ Idle("base")
    /\ \E s \in Sections, d \in OptMaps, p \in InPaths \cup {NoPath} :
          Finish([NoCall EXCEPT !.op = "update_section", !.section = s,
                                !.set_dict = d, !.file_path = p],
                 update_section(obj, env, St0, s, d, p))

BaseAddSection ==
    /\ Idle("base")
    /\ \E s \in Sections, d \in OptMaps, p \in InPaths :
          Finish([NoCall EXCEPT !.op = "add_section", !.section = s,
                                !.set_dict = d, !.file_path = p],
                 add_section(obj, env, St0, s, d, p))

BaseUpdateAllSections ==
    /\ Idle("base")
    /\ \E d \in OptMaps, p \in InPaths :
          Finish([NoCall EXCEPT !.op = "update_all_sections",
                                !.set_dict = d, !.file_path = p],
                 update_all_sections(obj, St0, d, p))

RepoUpdateSection ==
    /\ Idle("repo")
    /\ \E s \in Sections, d \in OptMaps, p \in InPaths \cup {NoPath},
          en \in Enableds :
          Finish([NoCall EXCEPT !.op = "update_section", !.section = s,
                                !.set_dict = d, !.file_path = p,
                                !.enabled = en],
                 repo_update_section(obj, env, St0, s, d, p, en))

RepoAddSection ==
    /\ Idle("repo")
    /\ \E s \in Sections, d \in OptMaps, p \in InPaths, en \in Enableds :
          Finish([NoCall EXCEPT !.op = "add_section", !.section = s,
                                !.set_dict = d, !.file_path = p,
                                !.enabled = en],
                 repo_add_section(obj, env, St0, s, d, p, en))

RepoAddOrUpdateSection ==
    /\ Idle("repo")
    /\ \E s \in Sections, d \in OptMaps, p \in InPaths \cup {NoPath},
          en \in Enableds, c \in BOOLEAN :
          Finish([NoCall EXCEPT !.op = "add_or_update_section",
                                !.section = s, !.set_dict = d,
                                !.file_path = p, !.enabled = en,
                                !.create = c],
                 add_or_update_section(obj, env, St0, s, d, p, en, c))

ComposeAddSection ==
    /\ Idle("compose")
    /\ \E s \in Sections, d \in OptMaps, p \in InPaths :
          Finish([NoCall EXCEPT !.op = "add_section", !.section = s,
                                !.set_dict = d, !.file_path = p],
                 compose_add_section(obj, env, St0, s, d, p))

ComposeUpdateSection ==
    /\ Idle("compose")
    /\ \E s \in Sections, d \in OptMaps, p \in InPaths \cup {NoPath},
          en \in Enableds :
          Finish([NoCall EXCEPT !.op = "update_section", !.section = s,
                                !.set_dict = d, !.file_path = p,
                                !.enabled = en],
                 compose_update_section(obj, env, St0, s, d, en, p))

ComposeUpdateAllSections ==
    /\ Idle("compose")
    /\ \E d \in OptMaps, p \in InPaths, en \in Enableds :
          Finish([NoCall EXCEPT !.op = "update_all_sections",
                                !.set_dict = d, !.file_path = p,
                                !.enabled = en],
                 compose_update_all_sections(obj, St0, p, d, en))

Next ==
    \/ BaseUpdateSection
    \/ BaseAddSection
    \/ BaseUpdateAllSections
    \/ RepoUpdateSection
    \/ RepoAddSection
    \/ RepoAddOrUpdateSection
    \/ ComposeAddSection
    \/ ComposeUpdateSection
    \/ ComposeUpdateAllSections

Spec == Init /\ [][Next]_vars

(* ------------------- update_section called twice ----------------------- *)

\* the same update_section call again, on the filesystem the first call
\* left: pre becomes the filesystem between the two calls
UpdateSectionAgain ==
    /\ call.op = "update_section"
    /\ Finish([call EXCEPT !.op = "update_section_again"],
              CASE obj.cls = "base" ->
                       update_section(obj, env, St0, call.section,
                                      call.set_dict, call.file_path)
                [] obj.cls = "repo" ->
                       repo_update_section(obj, env, St0, call.section,
                                           call.set_dict, call.file_path,
                                           call.enabled)
                [] obj.cls = "compose" ->
                       compose_update_section(obj, env, St0, call.section,
                                              call.set_dict, call.enabled,
                                              call.file_path))

NextTwice ==
    \/ BaseUpdateSection
    \/ RepoUpdateSection
    \/ ComposeUpdateSection
    \/ UpdateSectionAgain

SpecTwice == Init /\ [][NextTwice]_vars

(* ---------------------------- constructors ---------------------------- *)

YUM_GLOBAL_CONFIG_FILE_PATH == Abs("/etc", "yum.conf")

\* a caller's own global configuration file
UserConf == Rel("my.conf")

ConfPaths == {Key(YUM_GLOBAL_CONFIG_FILE_PATH), Key(UserConf)}

\* the document of a new global configuration file: [main], no options
MainOnly == [s \in {"main"} |-> EmptyMap]

\* os.path.isdir
Isdir(d) == d \in {"/etc", YUM_REPO_DIR, Cwd}

\* no object: the constructor has not run, or it has raised
NoObject ==
    [cls |-> "none", valid_options |-> {}, dir_path |-> "",
     file_extension |-> "", conf_file_path |-> NoPath]

GlobalConfig(p) == [NoObject EXCEPT !.cls = "global", !.conf_file_path = p]

LegacyConfig(p, d) ==
    [NoObject EXCEPT !.cls = "legacy", !.conf_file_path = p, !.dir_path = d]

\* a constructor returns: the outcome of its body and the object, if any
Return(st, e, o) ==
    [fs |-> st.fs, log |-> st.log, calls |-> st.calls, res |-> e,
     raised |-> IF e = "ok" THEN st.raised ELSE Append(st.raised, e),
     obj |-> IF e = "ok" THEN o ELSE NoObject]

\* TripleOYumGlobalConfig.__init__ that creates whichever file is missing
TripleOYumGlobalConfig_init_create_any(st0, file_path) ==
    LET st == Called(st0, "TripleOYumGlobalConfig.__init__")
        conf_file_path == IF file_path # NoPath THEN file_path
                          ELSE YUM_GLOBAL_CONFIG_FILE_PATH
    IN  IF ~File(st.fs, conf_file_path).exists
        THEN Return(WriteFile(st, conf_file_path, MainOnly), "ok",
                    GlobalConfig(conf_file_path))
        ELSE Return(st, "ok", GlobalConfig(conf_file_path))

\* TripleOYumGlobalConfig.__init__: the value of validated_file_path is
\* not used; the base constructor is entered without a dir_path
TripleOYumGlobalConfig_init(st0, file_path) ==
    LET st == Called(st0, "TripleOYumGlobalConfig.__init__")
        conf_file_path == IF file_path # NoPath THEN file_path
                          ELSE YUM_GLOBAL_CONFIG_FILE_PATH
        validated == validated_file_path(st.fs, file_path)
    IN  IF file_path # NoPath
        THEN IF validated
             THEN Return(st, "ok", GlobalConfig(conf_file_path))
             ELSE Return(st, "ok", GlobalConfig(conf_file_path))
        ELSE IF ~File(st.fs, conf_file_path).exists
        THEN Return(WriteFile(st, conf_file_path, MainOnly), "ok",
                    GlobalConfig(conf_file_path))
        ELSE Return(st, "ok", GlobalConfig(conf_file_path))

\* TripleOYumConfig.__init__ of the single-file engine (tripleo-yum-config)
LegacyTripleOYumConfig_init(st0, file_path, dir_path) ==
    LET st == Called(st0, "TripleOYumConfig.__init__")
    IN  IF file_path = NoPath /\ dir_path = ""
        THEN Return(st, "NotFound", NoObject)
        ELSE IF file_path # NoPath /\ ~File(st.fs, file_path).exists
        THEN Return(st, "NotFound", NoObject)
        ELSE IF file_path # NoPath /\ ~File(st.fs, file_path).writable
        THEN Return(st, "PermissionDenied", NoObject)
        ELSE IF dir_path # "" /\ ~Isdir(dir_path)
        THEN Return(st, "NotFound", NoObject)
        ELSE Return(st, "ok", LegacyConfig(file_path, dir_path))

ConfFiles ==
    {NoFile, IniFile(MainOnly), IniFile([s \in {"main"} |-> OptsY]),
     [IniFile(MainOnly) EXCEPT !.writable = FALSE]}

\* the file_path and dir_path arguments a caller passes to a constructor
InitPaths == {NoPath, UserConf, YUM_GLOBAL_CONFIG_FILE_PATH}

InitDirs == {"", YUM_REPO_DIR, "/missing"}

NoInit == [op |-> "none", file_path |-> NoPath, dir_path |-> ""]

InitNew ==
    /\ obj = NoObject
    /\ env \in {"unset", "1"}
    /\ fs \in [ConfPaths -> ConfFiles]
    /\ pre = fs
    /\ call = NoInit
    /\ res = "none"
    /\ log = <<>>
    /\ calls = <<>>
    /\ raised = <<>>

Construct(c, out) ==
    /\ call' = c
    /\ obj' = out.obj
    /\ pre' = fs
    /\ fs' = out.fs
    /\ res' = out.res
    /\ log' = out.log
    /\ calls' = out.calls
    /\ raised' = out.raised
    /\ UNCHANGED env

NewGlobalConfig ==
    /\ call.op = "none"
    /\ \E p \in InitPaths :
          Construct([NoInit EXCEPT !.op = "TripleOYumGlobalConfig",
                                   !.file_path = p],
                    TripleOYumGlobalConfig_init(St0, p))

NewLegacyConfig ==
    /\ call.op = "none"
    /\ \E p \in InitPaths, d \in InitDirs :
          Construct([NoInit EXCEPT !.op = "LegacyTripleOYumConfig",
                                   !.file_path = p, !.dir_path = d],
                    LegacyTripleOYumConfig_init(St0, p, d))

NextNew ==
    \/ NewGlobalConfig
    \/ NewLegacyConfig

SpecNew == InitNew /\ [][NextNew]_vars

(* ------------------ TripleOYumComposeRepoConfig.__init__ --------------- *)

COMPOSE_REPOS_RELEASES == {"centos-stream-8", "centos-stream-9"}

\* the release arguments a caller passes
Releases == COMPOSE_REPOS_RELEASES \cup {"invalid_release"}

Url8 == "https://composes.centos.org/latest-CentOS-Stream-8/compose/"

Url9 == "https://composes.stream.centos.org/production/latest-CentOS-Stream/compose"

\* the compose_url arguments a caller passes
ComposeUrls == {Url8, Url9, "http://invalid_url.org"}

\* pattern.match(compose_url) with COMPOSE_REPOS_URL_PATTERN[release]: the
\* three groups of the match, <<>> when the URL does not match.  The
\* centos-stream-8 pattern allows no "/" in its second group, the
\* centos-stream-9 pattern needs a directory before it.
UrlGroups(release, url) ==
    CASE release = "centos-stream-8" /\ url = Url8 ->
             <<"https://composes.centos.org/", "latest-CentOS-Stream-8",
               "/compose/">>
      [] release = "centos-stream-9" /\ url = Url9 ->
             <<"https://composes.stream.centos.org/production/",
               "latest-CentOS-Stream", "/compose">>
      [] OTHER -> <<>>

\* pattern.sub(COMPOSE_REPOS_URL_REPLACE_STR[release] % compose_id, url)
UrlSub(release, url, compose_id) ==
    LET g == UrlGroups(release, url) IN g[1] \o compose_id \o g[3]

\* s.strip('/') on the URLs and paths that are joined
Strip(s) ==
    CASE s = "https://composes.centos.org/" \o ComposeId \o "/compose/" ->
             "https://composes.centos.org/" \o ComposeId \o "/compose"
      [] s = "AppStream/x86_64/os/" -> "AppStream/x86_64/os"
      [] s = "/BaseOS/x86_64/os" -> "BaseOS/x86_64/os"
      [] OTHER -> s

\* '/'.join(s.strip('/') for s in segments)
UrlJoin(a, b) == Strip(a) \o "/" \o Strip(b)

Archs == {"x86_64", "aarch64"}

\* paths.repository of a variant: architecture -> path, "" where the
\* manifest gives the architecture no repository path
RepoPaths(v) ==
    {[a \in Archs |-> ""],
     [a \in Archs |-> IF a = "x86_64"
                      THEN (IF v = "AppStream" THEN "AppStream/x86_64/os/"
                            ELSE "/BaseOS/x86_64/os")
                      ELSE ""],
     [a \in Archs |-> v \o "/" \o a \o "/os"]}

\* the payload of composeinfo.json
Manifests ==
    {[id |-> ComposeId, variants |-> vs] :
        vs \in {f \in [Variants -> UNION {RepoPaths(v) : v \in Variants}] :
                   \A v \in Variants : f[v] \in RepoPaths(v)}}

\* what urlopen and json.loads make of the manifest URL: the transport
\* fails, the body is not JSON, the JSON document lacks the expected keys,
\* or the document is a manifest
Responses ==
    {[kind |-> k, payload |-> [id |-> "", variants |-> <<>>]] :
        k \in {"unreachable", "not_json", "no_payload"}}
    \cup {[kind |-> "manifest", payload |-> m] : m \in Manifests}

\* a constructed TripleOYumComposeRepoConfig with its compose attributes
ComposeObject(d, arch, release, info, url) ==
    [cls |-> "compose", valid_options |-> YUM_REPO_SUPPORTED_OPTIONS,
     dir_path |-> d, file_extension |-> YUM_REPO_FILE_EXTENSION,
     arch |-> arch, release |-> release, compose_info |-> info,
     compose_id |-> info.id, compose_url |-> url]

\* _get_compose_info: only urlopen is inside the try that raises
\* ComposeError; json.loads and the key lookups are outside it
_get_compose_info(st0, response) ==
    LET st == Called(st0, "_get_compose_info")
    IN  CASE response.kind = "unreachable" ->
                 Raise(Raise(st, "URLError"), "ComposeError")
          [] response.kind = "not_json" -> Raise(st, "JSONDecodeError")
          [] response.kind = "no_payload" -> Raise(st, "KeyError")
          [] OTHER -> Raise(st, "ok")

\* an exception raised inside the constructor leaves it: no object
Failed(st) ==
    [fs |-> st.fs, log |-> st.log, calls |-> st.calls, res |-> st.res,
     raised |-> st.raised, obj |-> NoObject]

\* the constructor fetching the manifest before it validates its arguments
TripleOYumComposeRepoConfig_init_fetch_first(st0, compose_url, release, dir_path, arch, response) ==
    LET fetched == _get_compose_info(st0, response)
        st1 == Called(fetched, "1. validate release name")
        st2 == Called(st1, "2. Validate URL")
        st6 == Called(st2, "TripleOYumConfig.__init__")
        conf_dir_path == IF dir_path # "" THEN dir_path ELSE YUM_REPO_DIR
    IN  IF fetched.res # "ok"
        THEN Failed(fetched)
        ELSE IF release \notin COMPOSE_REPOS_RELEASES
        THEN Return(st1, "ComposeError", NoObject)
        ELSE IF UrlGroups(release, compose_url) = <<>>
        THEN Return(st2, "ComposeError", NoObject)
        ELSE IF ~Isdir(conf_dir_path)
        THEN Return(st6, "NotFound", NoObject)
        ELSE Return(st6, "ok",
                    ComposeObject(conf_dir_path, arch, release,
                                  response.payload,
                                  UrlSub(release, compose_url,
                                         response.payload.id)))

\* TripleOYumComposeRepoConfig.__init__; calls records its numbered steps
TripleOYumComposeRepoConfig_init(st0, compose_url, release, dir_path, arch, response) ==
    LET st1 == Called(st0, "1. validate release name")
        st2 == Called(st1, "2. Validate URL")
        fetched == _get_compose_info(st2, response)
        st6 == Called(fetched, "TripleOYumConfig.__init__")
        conf_dir_path == IF dir_path # "" THEN dir_path ELSE YUM_REPO_DIR
    IN  IF release \notin COMPOSE_REPOS_RELEASES
        THEN Return(st1, "ComposeError", NoObject)
        ELSE IF UrlGroups(release, compose_url) = <<>>
        THEN Return(st2, "ComposeError", NoObject)
        ELSE IF fetched.res # "ok"
        THEN Failed(fetched)
        ELSE IF ~Isdir(conf_dir_path)
        THEN Return(st6, "NotFound", NoObject)
        ELSE Return(st6, "ok",
                    ComposeObject(conf_dir_path, arch, release,
                                  response.payload,
                                  UrlSub(release, compose_url,
                                         response.payload.id)))

(* ------------------------ enable_compose_repos ------------------------- *)

\* str.lower on the variant names
Lower(v) ==
    CASE v = "AppStream" -> "appstream"
      [] v = "BaseOS" -> "baseos"
      [] OTHER -> v

\* _get_repo_name with "-" between the compose id and the variant
_get_repo_name_dashed(o, variant) == o.compose_id \o "-" \o variant

_get_repo_name(o, variant) == o.compose_id \o " " \o variant

_get_repo_filename(o, variant) == RepoFilename(o.compose_id, variant)

\* _get_repo_base_url; "" is None
_get_repo_base_url(o, variant) ==
    LET path == o.compose_info.variants[variant][o.arch]
    IN  IF path = "" THEN "" ELSE UrlJoin(o.compose_url, path)

\* the add_dict that enable_compose_repos builds for a variant
AddDict(o, var) ==
    [k \in {"name", "baseurl", "enabled", "gpgcheck"} |->
        CASE k = "name" -> _get_repo_name(o, var)
          [] k = "baseurl" -> _get_repo_base_url(o, var)
          [] k = "enabled" -> "1"
          [] OTHER -> "0"]

\* updated_repos[key] = value on a dict kept in insertion order
DictSet(d, key, value) ==
    IF \E i \in DOMAIN d : d[i][1] = key
    THEN [i \in DOMAIN d |-> IF d[i][1] = key THEN <<key, value>> ELSE d[i]]
    ELSE Append(d, <<key, value>>)

\* the body of "for var in variants" that lets InvalidSection propagate
EnableVariant_add_only(o, e, st, var) ==
    LET file_path == Join(o.dir_path, Rel(_get_repo_filename(o, var)))
    IN  compose_add_section(o, e, st, Lower(var), AddDict(o, var), file_path)

\* the body of "for var in variants" for a variant that has a base URL
EnableVariant(o, e, st, var) ==
    LET file_path == Join(o.dir_path, Rel(_get_repo_filename(o, var)))
        added == compose_add_section(o, e, st, Lower(var), AddDict(o, var),
                                     file_path)
    IN  IF added.res = "InvalidSection"
        THEN compose_update_section(o, e, added, Lower(var), AddDict(o, var),
                                    "None", file_path)
        ELSE added

\* the loop "for var in variants"; updated is updated_repos
RECURSIVE EnableVariants(_, _, _, _, _)
EnableVariants(o, e, st, variants, updated) ==
    IF variants = <<>>
    THEN [st |-> Raise(st, "ok"), updated |-> updated]
    ELSE LET var == Head(variants)
             done == EnableVariant(o, e, st, var)
         IN  IF _get_repo_base_url(o, var) = ""
             THEN EnableVariants(o, e, st, Tail(variants), updated)
             ELSE IF done.res # "ok"
             THEN [st |-> done, updated |-> updated]
             ELSE EnableVariants(o, e, done, Tail(variants),
                      DictSet(updated, Lower(var),
                              Join(o.dir_path,
                                   Rel(_get_repo_filename(o, var)))))

\* the override loop that does not spare the file just written
RECURSIVE DisableFiles(_, _, _, _, _, _)
DisableFiles_all(o, e, st, var, files, keep) ==
    IF files = <<>>
    THEN Raise(st, "ok")
    ELSE LET done == compose_update_section(o, e, st, var, EmptyMap,
                                            "False", Head(files))
         IN  IF done.res # "ok"
             THEN done
             ELSE DisableFiles(o, e, done, var, Tail(files), keep)

\* the loop "for file in config_files" of the override
DisableFiles(o, e, st, var, files, keep) ==
    IF files = <<>>
    THEN Raise(st, "ok")
    ELSE LET done == IF Head(files) # keep
                     THEN compose_update_section(o, e, st, var, EmptyMap,
                                                 "False", Head(files))
                     ELSE Raise(st, "ok")
         IN  IF done.res # "ok"
             THEN done
             ELSE DisableFiles(o, e, done, var, Tail(files), keep)

\* the loop "for var in updated_repos" of the override
RECURSIVE OverrideRepos(_, _, _, _)
OverrideRepos(o, e, st, updated) ==
    IF updated = <<>>
    THEN Raise(st, "ok")
    ELSE LET var == Head(updated)[1]
             done == DisableFiles(o, e, st, var,
                                  _get_config_files(o, st.fs, var),
                                  Head(updated)[2])
         IN  IF done.res # "ok"
             THEN done
             ELSE OverrideRepos(o, e, done, Tail(updated))

\* enable_compose_repos that overrides whatever the loop has raised
enable_compose_repos_override_always(o, e, st0, variants, override_repos) ==
    LET st == Called(st0, "enable_compose_repos")
        known == DOMAIN o.compose_info.variants
        all == SelectSeq(VariantOrder, LAMBDA v : v \in known)
        looped == EnableVariants(o, e, st,
                                 IF variants # <<>> THEN variants ELSE all,
                                 <<>>)
        overridden == OverrideRepos(o, e, looped.st, looped.updated)
    IN  IF \E i \in DOMAIN variants : variants[i] \notin known
        THEN Raise(st, "ComposeError")
        ELSE IF ~override_repos
        THEN looped.st
        ELSE IF looped.st.res # "ok"
        THEN Raise(overridden, looped.st.res)
        ELSE overridden

\* enable_compose_repos that writes the known variants before it rejects
\* the unknown ones
enable_compose_repos_validate_late(o, e, st0, variants, override_repos) ==
    LET st == Called(st0, "enable_compose_repos")
        known == DOMAIN o.compose_info.variants
        all == SelectSeq(VariantOrder, LAMBDA v : v \in known)
        looped == EnableVariants(o, e, st,
                                 IF variants # <<>>
                                 THEN SelectSeq(variants, LAMBDA v : v \in known)
                                 ELSE all,
                                 <<>>)
    IN  IF looped.st.res # "ok"
        THEN looped.st
        ELSE IF \E i \in DOMAIN variants : variants[i] \notin known
        THEN Raise(looped.st, "ComposeError")
        ELSE IF ~override_repos
        THEN looped.st
        ELSE OverrideRepos(o, e, looped.st, looped.updated)

\* variants = <<>> is variants=None
enable_compose_repos(o, e, st0, variants, override_repos) ==
    LET st == Called(st0, "enable_compose_repos")
        known == DOMAIN o.compose_info.variants
        all == SelectSeq(VariantOrder, LAMBDA v : v \in known)
        looped == EnableVariants(o, e, st,
                                 IF variants # <<>> THEN variants ELSE all,
                                 <<>>)
    IN  IF \E i \in DOMAIN variants : variants[i] \notin known
        THEN Raise(st, "ComposeError")
        ELSE IF looped.st.res # "ok" \/ ~override_repos
        THEN looped.st
        ELSE OverrideRepos(o, e, looped.st, looped.updated)

\* the sections a compose run finds in the files of the repo directory
OldAppStream ==
    [k \in {"name", "enabled", "cost"} |->
        CASE k = "name" -> "old" [] k = "enabled" -> "0" [] OTHER -> "5"]

\* an enabled section of the same name in a file that is not of the compose
OtherAppStream ==
    [k \in {"name", "enabled"} |-> IF k = "name" THEN "other" ELSE "1"]

ComposeFiles(n) ==
    CASE n = RepoFilename(ComposeId, "AppStream") ->
             {NoFile, IniFile(EmptyCfg),
              IniFile([s \in {"appstream"} |-> OldAppStream]),
              [IniFile(EmptyCfg) EXCEPT !.writable = FALSE]}
      [] n = RepoFilename(ComposeId, "BaseOS") ->
             {NoFile, IniFile([s \in {"baseos"} |-> OptsX])}
      [] OTHER ->
             {NoFile, IniFile([s \in {"appstream", "baseos"} |-> OptsY]),
              IniFile([s \in {"appstream"} |-> OtherAppStream]),
              [IniFile([s \in {"baseos"} |-> OptsY]) EXCEPT !.writable = FALSE]}

ComposePaths == {<<YUM_REPO_DIR, n>> : n \in ComposeNames}

ComposeFS ==
    {f \in [ComposePaths -> UNION {ComposeFiles(n) : n \in ComposeNames}] :
        \A n \in ComposeNames : f[<<YUM_REPO_DIR, n>>] \in ComposeFiles(n)}

\* the variants arguments a caller passes; <<>> is None
VariantLists ==
    {<<>>, <<"AppStream">>, <<"BaseOS">>, <<"BaseOS", "AppStream">>,
     <<"AppStream", "Extras">>}

NoComposeCall ==
    [op |-> "none", compose_url |-> "", release |-> "", dir_path |-> "",
     arch |-> "", response |-> "", variants |-> <<>>,
     override_repos |-> FALSE, first |-> "none"]

InitCompose ==
    /\ obj = NoObject
    /\ env \in {"unset", "1"}
    /\ fs \in ComposeFS
    /\ pre = fs
    /\ call = NoComposeCall
    /\ res = "none"
    /\ log = <<>>
    /\ calls = <<>>
    /\ raised = <<>>

NewComposeRepoConfig ==
    /\ call.op = "none"
    /\ \E u \in ComposeUrls, r \in Releases, d \in {"", "/missing"},
          a \in Archs, n \in Responses :
          Construct([NoComposeCall EXCEPT
                        !.op = "TripleOYumComposeRepoConfig",
                        !.compose_url = u, !.release = r, !.dir_path = d,
                        !.arch = a, !.response = n.kind],
                    TripleOYumComposeRepoConfig_init(St0, u, r, d, a, n))

EnableComposeRepos ==
    /\ call.op = "TripleOYumComposeRepoConfig"
    /\ obj.cls = "compose"
    /\ \E vs \in VariantLists, ov \in BOOLEAN :
          Finish([call EXCEPT !.op = "enable_compose_repos",
                              !.variants = vs, !.override_repos = ov],
                 enable_compose_repos(obj, env, St0, vs, ov))

\* the same run again with the same object, hence the same manifest;
\* first keeps the outcome of the first run
EnableComposeReposAgain ==
    /\ call.op = "enable_compose_repos"
    /\ Finish([call EXCEPT !.op = "enable_compose_repos_again",
                           !.first = res],
              enable_compose_repos(obj, env, St0, call.variants,
                                   call.override_repos))

NextCompose ==
    \/ NewComposeRepoConfig
    \/ EnableComposeRepos
    \/ EnableComposeReposAgain

SpecCompose == InitCompose /\ [][NextCompose]_vars

(* ------------- the enable-compose-repos flow of the front ends --------- *)

\* the disable_repos arguments a caller passes; <<>> is the option left
\* out: None on the command line, the default [] of the module
DisableLists ==
    {<<>>,
     <<Abs(YUM_REPO_DIR, "other.repo")>>,
     <<Abs(YUM_REPO_DIR, RepoFilename(ComposeId, "BaseOS")),
       Abs(YUM_REPO_DIR, "other.repo")>>,
     <<Abs(YUM_REPO_DIR, RepoFilename(ComposeId, "AppStream"))>>}

\* the state a constructor or a method has left, without its result
After(out) ==
    [fs |-> out.fs, log |-> out.log, calls |-> out.calls,
     raised |-> out.raised]

\* the loop "for file in disable_repos"
RECURSIVE DisableRepos(_, _, _)
DisableRepos(o, st, files) ==
    IF files = <<>>
    THEN Raise(st, "ok")
    ELSE LET done == compose_update_all_sections(o, st, Head(files),
                                                 EmptyMap, "False")
         IN  IF done.res # "ok"
             THEN done
             ELSE DisableRepos(o, After(done), Tail(files))

\* what a front end has done: the outcome of each step it has reached
\* ("none" for a step it has not), the object and the final state
Flow(built, enabled, out) ==
    [fs |-> out.fs, log |-> out.log, calls |-> out.calls, res |-> out.res,
     raised |-> out.raised, obj |-> built.obj, init_res |-> built.res,
     enable_res |-> IF built.res = "ok" THEN enabled.res ELSE "none"]

\* main that disables the listed files whatever enable_compose_repos did
main_disable_anyway(e, st0, compose_url, release, dir_path, arch, response, variants, disable_conflicting, disable_repos) ==
    CHOOSE flow \in
        {IF repo_obj.res # "ok"
         THEN Flow(repo_obj, repo_obj, repo_obj)
         ELSE CHOOSE done \in
                 {
                    IF disable_repos = <<>>
                    THEN Flow(repo_obj, enabled, enabled)
                    ELSE IF enabled.res # "ok"
                    THEN Flow(repo_obj, enabled,
                              Raise(After(DisableRepos(repo_obj.obj,
                                                       After(enabled),
                                                       disable_repos)),
                                    enabled.res))
                    ELSE Flow(repo_obj, enabled,
                              DisableRepos(repo_obj.obj, After(enabled),
                                           disable_repos)) :
                  enabled \in {enable_compose_repos(repo_obj.obj, e,
                                   After(repo_obj), variants,
                                   disable_conflicting)}} : TRUE :
         repo_obj \in {TripleOYumComposeRepoConfig_init(st0, compose_url,
                           release, dir_path, arch, response)}} : TRUE

\* main() of the command line, command enable-compose-repos: repo_obj is
\* what the constructor has returned, enabled what enable_compose_repos has
main(e, st0, compose_url, release, dir_path, arch, response, variants, disable_conflicting, disable_repos) ==
    CHOOSE flow \in
        {IF repo_obj.res # "ok"
         THEN Flow(repo_obj, repo_obj, repo_obj)
         ELSE CHOOSE done \in
                 {
                    IF enabled.res # "ok" \/ disable_repos = <<>>
                    THEN Flow(repo_obj, enabled, enabled)
                    ELSE Flow(repo_obj, enabled,
                              DisableRepos(repo_obj.obj, After(enabled),
                                           disable_repos)) :
                  enabled \in {enable_compose_repos(repo_obj.obj, e,
                                   After(repo_obj), variants,
                                   disable_conflicting)}} : TRUE :
         repo_obj \in {TripleOYumComposeRepoConfig_init(st0, compose_url,
                           release, dir_path, arch, response)}} : TRUE

\* run_module() of the Ansible module, type enable-compose-repos
run_module(e, st0, compose_url, release, dir_path, arch, response, variants, disable_conflicting, disable_repos) ==
    CHOOSE flow \in
        {IF repo_obj.res # "ok"
         THEN Flow(repo_obj, repo_obj, repo_obj)
         ELSE CHOOSE done \in
                 {
                    IF enabled.res # "ok" \/ disable_repos = <<>>
                    THEN Flow(repo_obj, enabled, enabled)
                    ELSE Flow(repo_obj, enabled,
                              DisableRepos(repo_obj.obj, After(enabled),
                                           disable_repos)) :
                  enabled \in {enable_compose_repos(repo_obj.obj, e,
                                   After(repo_obj), variants,
                                   disable_conflicting)}} : TRUE :
         repo_obj \in {TripleOYumComposeRepoConfig_init(st0, compose_url,
                           release, dir_path, arch, response)}} : TRUE

NoFlowCall ==
    [op |-> "none", compose_url |-> "", release |-> "", response |-> "",
     variants |-> <<>>, disable_conflicting |-> FALSE,
     disable_repos |-> <<>>,
     init_res |-> "none", enable_res |-> "none"]

InitFlow ==
    /\ obj = NoObject
    /\ env \in {"unset", "1"}
    /\ fs \in ComposeFS
    /\ pre = fs
    /\ call = NoFlowCall
    /\ res = "none"
    /\ log = <<>>
    /\ calls = <<>>
    /\ raised = <<>>

\* a front end has run: the call keeps its arguments and the outcome of
\* the steps
Main ==
    /\ call.op = "none"
    /\ \E u \in {Url9, "http://invalid_url.org"}, r \in {"centos-stream-9"},
          n \in Responses, vs \in VariantLists, ov \in BOOLEAN,
          dr \in DisableLists :
          \E flow \in {main(env, St0, u, r, "", "x86_64", n, vs, ov, dr)} :
              Construct([NoFlowCall EXCEPT
                            !.op = "main", !.compose_url = u, !.release = r,
                            !.response = n.kind, !.variants = vs,
                            !.disable_conflicting = ov, !.disable_repos = dr,
                            !.init_res = flow.init_res,
                            !.enable_res = flow.enable_res],
                        flow)

RunModule ==
    /\ call.op = "none"
    /\ \E u \in {Url9, "http://invalid_url.org"}, r \in {"centos-stream-9"},
          n \in Responses, vs \in VariantLists, ov \in BOOLEAN,
          dr \in DisableLists :
          \E flow \in {run_module(env, St0, u, r, "", "x86_64", n, vs, ov, dr)} :
              Construct([NoFlowCall EXCEPT
                            !.op = "run_module", !.compose_url = u, !.release = r,
                            !.response = n.kind, !.variants = vs,
                            !.disable_conflicting = ov, !.disable_repos = dr,
                            !.init_res = flow.init_res,
                            !.enable_res = flow.enable_res],
                        flow)

NextFlow ==
    \/ Main
    \/ RunModule

SpecFlow == InitFlow /\ [][NextFlow]_vars

(* --------------------- the two lookups, called alone ------------------- *)

\* ret is what the lookup returned
NoLookup ==
    [op |-> "none", section |-> "", file_path |-> NoPath, ret |-> <<>>]

InitLookup ==
    /\ obj \in Objects
    /\ env \in {"unset", "1"}
    /\ fs \in InitFS
    /\ pre = fs
    /\ call = NoLookup
    /\ res = "none"
    /\ log = <<>>
    /\ calls = <<>>
    /\ raised = <<>>

\* _read_config_file(file_path, section), section = "" being None
ReadConfigFile ==
    /\ call.op = "none"
    /\ \E p \in InPaths, s \in Sections \cup {""} :
          LET r == _read_config_file(obj, fs, p, s)
          IN  /\ call' = [NoLookup EXCEPT
                             !.op = "_read_config_file", !.section = s,
                             !.file_path = p,
                             !.ret = IF r.err = "ok"
                                     THEN <<r.config, r.path>> ELSE <<>>]
              /\ res' = r.err
              /\ raised' = IF r.err = "ok" THEN <<>> ELSE <<r.err>>
              /\ calls' = <<"_read_config_file">>
              /\ pre' = fs
              /\ UNCHANGED <<obj, env, fs, log>>

\* _get_config_files(section)
GetConfigFiles ==
    /\ call.op = "none"
    /\ \E s \in Sections \cup {""} :
          /\ call' = [NoLookup EXCEPT
                         !.op = "_get_config_files", !.section = s,
                         !.ret = _get_config_files(obj, fs, s)]
          /\ res' = "ok"
          /\ calls' = <<"_get_config_files">>
          /\ pre' = fs
          /\ UNCHANGED <<obj, env, fs, log, raised>>

NextLookup ==
    \/ ReadConfigFile
    \/ GetConfigFiles

SpecLookup == InitLookup /\ [][NextLookup]_vars

(* ------------- the single-file engine (tripleo-yum-config) ------------- *)

\* the files of the directory, in listing order, that the search of
\* _read_config_file does not skip and that have the section
LegacyMatches(o, f, section) ==
    SelectSeq(Listdir(f, o.dir_path),
              LAMBDA n :
                  /\ (o.file_extension # "" => Endswith(n, o.file_extension))
                  /\ f[<<o.dir_path, n>>].writable
                  /\ f[<<o.dir_path, n>>].parses
                  /\ section \in DOMAIN f[<<o.dir_path, n>>].cfg)

\* the search that keeps the last occurrence of the section
Legacy_read_config_file_last_match(o, f, section) ==
    LET bound == File(f, o.conf_file_path)
        found == LegacyMatches(o, f, section)
    IN  IF o.conf_file_path # NoPath
        THEN IF ~bound.parses
             THEN [err |-> "ParseError", path |-> NoPath, config |-> EmptyCfg,
                   warnings |-> 0]
             ELSE IF section \notin DOMAIN bound.cfg
             THEN [err |-> "InvalidSection", path |-> NoPath,
                   config |-> EmptyCfg, warnings |-> 0]
             ELSE [err |-> "ok", path |-> o.conf_file_path,
                   config |-> bound.cfg, warnings |-> 0]
        ELSE IF found = <<>>
        THEN [err |-> "ok", path |-> NoPath, config |-> EmptyCfg,
              warnings |-> 0]
        ELSE [err |-> "ok", path |-> Abs(o.dir_path, found[Len(found)]),
              config |-> f[<<o.dir_path, found[Len(found)]>>].cfg,
              warnings |-> Len(found) - 1]

\* _read_config_file(section) of the single-file engine: the bound file, or
\* the first file of the directory that has the section, with one warning
\* for every later file that has it too; path = NoPath is None
Legacy_read_config_file(o, f, section) ==
    LET bound == File(f, o.conf_file_path)
        found == LegacyMatches(o, f, section)
    IN  IF o.conf_file_path # NoPath
        THEN IF ~bound.parses
             THEN [err |-> "ParseError", path |-> NoPath, config |-> EmptyCfg,
                   warnings |-> 0]
             ELSE IF section \notin DOMAIN bound.cfg
             THEN [err |-> "InvalidSection", path |-> NoPath,
                   config |-> EmptyCfg, warnings |-> 0]
             ELSE [err |-> "ok", path |-> o.conf_file_path,
                   config |-> bound.cfg, warnings |-> 0]
        ELSE IF found = <<>>
        THEN [err |-> "ok", path |-> NoPath, config |-> EmptyCfg,
              warnings |-> 0]
        ELSE [err |-> "ok", path |-> Abs(o.dir_path, Head(found)),
              config |-> f[<<o.dir_path, Head(found)>>].cfg,
              warnings |-> Len(found) - 1]

\* update_section(section, set_dict) of the single-file engine; the values
\* are stored as given
Legacy_update_section(o, st0, section, set_dict) ==
    LET st == Called(st0, "update_section")
        read == Called(st, "_read_config_file")
        r == Legacy_read_config_file(o, st.fs, section)
        merged == [r.config EXCEPT ![section] = DictUpdate(@, set_dict)]
    IN  IF ~ValidOptions(o, set_dict)
        THEN [out |-> Raise(st, "InvalidOption"), warnings |-> 0]
        ELSE IF r.err # "ok"
        THEN [out |-> Raise(read, r.err), warnings |-> r.warnings]
        ELSE IF r.path = NoPath
        THEN [out |-> Raise(read, "NotFound"), warnings |-> r.warnings]
        ELSE IF ~File(read.fs, r.path).writable
        THEN [out |-> Raise(read, "PermissionError"), warnings |-> r.warnings]
        ELSE [out |-> Raise(WriteFile(read, r.path, merged), "ok"),
              warnings |-> r.warnings]

\* warnings counts the warnings the call has logged
NoLegacyCall ==
    [op |-> "none", section |-> "", set_dict |-> EmptyMap, warnings |-> 0]

\* constructed objects of the single-file engine: two that search the repo
\* directory, with and without whitelist and extension, and one bound to a
\* file, which then exists and is writable
InitLegacy ==
    /\ obj \in
      {[LegacyConfig(NoPath, YUM_REPO_DIR) EXCEPT
            !.valid_options = YUM_REPO_SUPPORTED_OPTIONS,
            !.file_extension = YUM_REPO_FILE_EXTENSION],
       LegacyConfig(NoPath, YUM_REPO_DIR),
       LegacyConfig(Abs(YUM_REPO_DIR, "b.repo"), "")}
    /\ env \in {"unset", "1"}
    /\ fs \in InitFS
    /\ obj.conf_file_path # NoPath
           => validated_file_path(fs, obj.conf_file_path)
    /\ pre = fs
    /\ call = NoLegacyCall
    /\ res = "none"
    /\ log = <<>>
    /\ calls = <<>>
    /\ raised = <<>>

LegacyUpdateSection ==
    /\ call.op = "none"
    /\ \E s \in Sections, d \in OptMaps :
          LET r == Legacy_update_section(obj, St0, s, d)
          IN  Finish([NoLegacyCall EXCEPT !.op = "update_section",
                                          !.section = s, !.set_dict = d,
                                          !.warnings = r.warnings],
                     r.out)

NextLegacy == LegacyUpdateSection

SpecLegacy == InitLegacy /\ [][NextLegacy]_vars

(* ------------------- repo operations reading a URL --------------------- *)

\* the repo documents a URL serves
RemoteDocs ==
    LET remote == [k \in {"name", "baseurl"} |->
                      IF k = "name" THEN "remote" ELSE "$V"]
    IN  {[s \in {"s1"} |-> remote],
         [s \in {"s1", "s2"} |-> IF s = "s1" THEN remote ELSE OptsY]}

\* what http_get returns: the body and the status, -1 when the transport
\* has raised; a body served with status 200 may fail to parse
HttpResponses ==
    {[status |-> 200, parses |-> TRUE, doc |-> d] : d \in RemoteDocs}
    \cup {[status |-> 200, parses |-> FALSE, doc |-> EmptyCfg],
          [status |-> 404, parses |-> FALSE, doc |-> EmptyCfg],
          [status |-> -1, parses |-> FALSE, doc |-> EmptyCfg]}

\* the URLs a caller passes as from_url
FromUrls == {"https://host/b.repo", "https://host/repos"}

\* from_url.split('/')[-1]
UrlFileName(url) == IF url = "https://host/b.repo" THEN "b.repo" ELSE "repos"

\* get_config_from_url that parses whatever body it is given
get_config_from_url_any_status(st0, response) ==
    LET st == Called(st0, "get_config_from_url")
    IN  IF ~response.parses /\ response.status = 200
        THEN [st |-> Raise(st, "configparser.Error"), config |-> EmptyCfg]
        ELSE [st |-> Raise(st, "ok"), config |-> response.doc]

get_config_from_url(st0, response) ==
    LET st == Called(st0, "get_config_from_url")
    IN  IF response.status # 200
        THEN [st |-> Raise(st, "UrlError"), config |-> EmptyCfg]
        ELSE IF ~response.parses
        THEN [st |-> Raise(st, "configparser.Error"), config |-> EmptyCfg]
        ELSE [st |-> Raise(st, "ok"), config |-> response.doc]

get_options_from_url(st0, response, section) ==
    LET got == get_config_from_url(st0, response)
    IN  IF got.st.res # "ok"
        THEN [st |-> got.st, options |-> EmptyMap]
        ELSE IF section \notin DOMAIN got.config
        THEN [st |-> Raise(got.st, "InvalidSection"), options |-> EmptyMap]
        ELSE [st |-> got.st, options |-> got.config[section]]

\* TripleOYumRepoConfig.update_section with from_url
repo_update_section_from_url(o, e, st, section, set_dict, file_path, enabled, response) ==
    LET got == get_options_from_url(st, response, section)
    IN  IF got.st.res # "ok"
        THEN got.st
        ELSE repo_update_section(o, e, got.st, section,
                                 DictUpdate(got.options, set_dict), file_path,
                                 enabled)

\* TripleOYumRepoConfig.add_section with from_url
repo_add_section_from_url(o, e, st, section, add_dict, file_path, enabled, response) ==
    LET got == get_options_from_url(st, response, section)
    IN  IF got.st.res # "ok"
        THEN got.st
        ELSE repo_add_section(o, e, got.st, section,
                              DictUpdate(got.options, add_dict), file_path,
                              enabled)

\* TripleOYumRepoConfig.add_or_update_section with from_url
add_or_update_section_from_url(o, e, st, section, set_dict, file_path, enabled, create_if_not_exists, response) ==
    LET got == get_options_from_url(st, response, section)
    IN  IF got.st.res # "ok"
        THEN got.st
        ELSE add_or_update_section(o, e, got.st, section,
                                   DictUpdate(got.options, set_dict),
                                   file_path, enabled, create_if_not_exists)

\* the loop "for section in tmp_config.sections()"
RECURSIVE AddOrUpdateSections(_, _, _, _, _, _, _, _, _)
AddOrUpdateSections(o, e, st, config, sections, set_dict, file_path, enabled, create_if_not_exists) ==
    IF sections = <<>>
    THEN Raise(st, "ok")
    ELSE LET done == add_or_update_section(o, e, st, Head(sections),
                         DictUpdate(config[Head(sections)], set_dict),
                         file_path, enabled, create_if_not_exists)
         IN  IF done.res # "ok"
             THEN done
             ELSE AddOrUpdateSections(o, e, done, config, Tail(sections),
                                      set_dict, file_path, enabled,
                                      create_if_not_exists)

add_or_update_all_sections_from_url(o, e, st, from_url, file_path, set_dict, enabled, create_if_not_exists, response) ==
    LET tmp_config == get_config_from_url(st, response)
        file_name == UrlFileName(from_url)
        path == IF file_path = NoPath /\ Endswith(file_name, ".repo")
                THEN Join(o.dir_path, Rel(file_name))
                ELSE file_path
    IN  IF tmp_config.st.res # "ok"
        THEN tmp_config.st
        ELSE AddOrUpdateSections(o, e, tmp_config.st, tmp_config.config,
                                 ConfigSections(tmp_config.config), set_dict,
                                 path, enabled, create_if_not_exists)

\* the option maps passed along with a URL
UrlMaps ==
    {EmptyMap, [k \in {"enabled"} |-> "0"], [k \in {"name"} |-> "$V"],
     [k \in {"bogus"} |-> "0"]}

NoUrlCall ==
    [op |-> "none", section |-> "", set_dict |-> EmptyMap, file_path |-> NoPath,
     enabled |-> "None", create |-> FALSE, from_url |-> "", status |-> 0]

InitUrl ==
    /\ obj = RepoConfig
    /\ env \in {"unset", "1"}
    /\ fs \in InitFS
    /\ pre = fs
    /\ call = NoUrlCall
    /\ res = "none"
    /\ log = <<>>
    /\ calls = <<>>
    /\ raised = <<>>

RepoUpdateSectionFromUrl ==
    /\ call.op = "none"
    /\ \E s \in Sections, d \in UrlMaps, p \in InPaths \cup {NoPath},
          en \in Enableds, u \in FromUrls, r \in HttpResponses :
          Finish([NoUrlCall EXCEPT !.op = "update_section", !.section = s,
                                   !.set_dict = d, !.file_path = p,
                                   !.enabled = en, !.from_url = u,
                                   !.status = r.status],
                 repo_update_section_from_url(obj, env, St0, s, d, p, en, r))

RepoAddSectionFromUrl ==
    /\ call.op = "none"
    /\ \E s \in Sections, d \in UrlMaps, p \in InPaths, en \in Enableds,
          u \in FromUrls, r \in HttpResponses :
          Finish([NoUrlCall EXCEPT !.op = "add_section", !.section = s,
                                   !.set_dict = d, !.file_path = p,
                                   !.enabled = en, !.from_url = u,
                                   !.status = r.status],
                 repo_add_section_from_url(obj, env, St0, s, d, p, en, r))

RepoAddOrUpdateSectionFromUrl ==
    /\ call.op = "none"
    /\ \E s \in Sections, d \in UrlMaps, p \in InPaths \cup {NoPath},
          en \in Enableds, c \in BOOLEAN, u \in FromUrls,
          r \in HttpResponses :
          Finish([NoUrlCall EXCEPT !.op = "add_or_update_section",
                                   !.section = s, !.set_dict = d,
                                   !.file_path = p, !.enabled = en,
                                   !.create = c, !.from_url = u,
                                   !.status = r.status],
                 add_or_update_section_from_url(obj, env, St0, s, d, p, en,
                                                c, r))

RepoAddOrUpdateAllSectionsFromUrl ==
    /\ call.op = "none"
    /\ \E d \in UrlMaps, p \in InPaths \cup {NoPath}, en \in Enableds,
          c \in BOOLEAN, u \in FromUrls, r \in HttpResponses :
          Finish([NoUrlCall EXCEPT
                     !.op = "add_or_update_all_sections_from_url",
                     !.set_dict = d, !.file_path = p, !.enabled = en,
                     !.create = c, !.from_url = u, !.status = r.status],
                 add_or_update_all_sections_from_url(obj, env, St0, u, p, d,
                                                     en, c, r))

NextUrl ==
    \/ RepoUpdateSectionFromUrl
    \/ RepoAddSectionFromUrl
    \/ RepoAddOrUpdateSectionFromUrl
    \/ RepoAddOrUpdateAllSectionsFromUrl

SpecUrl == InitUrl /\ [][NextUrl]_vars

(* ------------------- tripleo_repos.main: validation -------------------- *)

\* longest repo list given on the command line
MaxRepos == 3

\* the choices of the repos argument
RepoChoices ==
    {"current", "deps", "current-tripleo", "current-tripleo-dev", "ceph",
     "opstools", "tripleo-ci-testing", "current-tripleo-rdo"}

\* _validate_tripleo_ci_testing: "ok" is return True
_validate_tripleo_ci_testing(repos) ==
    LET in(x) == \E i \in DOMAIN repos : repos[i] = x
    IN  IF in("tripleo-ci-testing") /\ Len(repos) > 1
        THEN IF in("deps") \/ in("ceph") \/ in("opstools")
             THEN "ok"
             ELSE "InvalidArguments"
        ELSE "ok"

InitValidate ==
    /\ obj = NoObject
    /\ env = "unset"
    /\ fs = <<>>
    /\ pre = fs
    /\ call \in {[op |-> "none", repos |-> r] :
                  r \in UNION {[1..n -> RepoChoices] : n \in 1..MaxRepos}}
    /\ res = "none"
    /\ log = <<>>
    /\ calls = <<>>
    /\ raised = <<>>

ValidateTripleoCiTesting ==
    /\ call.op = "none"
    /\ call' = [call EXCEPT !.op = "_validate_tripleo_ci_testing"]
    /\ res' = _validate_tripleo_ci_testing(call.repos)
    /\ raised' = IF res' = "ok" THEN <<>> ELSE <<res'>>
    /\ calls' = <<"_validate_tripleo_ci_testing">>
    /\ UNCHANGED <<obj, env, fs, pre, log>>

NextValidate == ValidateTripleoCiTesting

SpecValidate == InitValidate /\ [][NextValidate]_vars

(* ------------------------------ claims --------------------------------- *)

\* the paths the call has opened for writing
Written == {log[i].path : i \in DOMAIN log}

\* no file was opened for writing and every file is as it was
NothingWritten == fs = pre /\ log = <<>>

\* the caller's option map has a key outside a non-empty whitelist
OutsideWhitelist ==
    /\ obj.valid_options # {}
    /\ ~(DOMAIN call.set_dict \subseteq obj.valid_options)

ThreeMutations == {"update_section", "add_section", "update_all_sections"}

\* C1: update_section, add_section and update_all_sections of a config
\* object with a non-empty whitelist, called with an option map that has a
\* key outside the whitelist, fail with InvalidOption and leave the
\* filesystem as it was (nothing modified, nothing created).
C1_WhitelistNoWrite ==
    (call.op \in ThreeMutations /\ OutsideWhitelist)
        => (res = "InvalidOption" /\ NothingWritten)

\* the option map handed to the engine: the caller's map with the enabled
\* parameter translated into it
EffMap == WithEnabled(call.set_dict, call.enabled)

\* in file k, everything but the options of call.set_dict in section
\* call.section is as it was
C2Frame(k) ==
    /\ DOMAIN fs[k].cfg = DOMAIN pre[k].cfg
    /\ call.section \in DOMAIN pre[k].cfg
    /\ \A s \in DOMAIN pre[k].cfg \ {call.section} : fs[k].cfg[s] = pre[k].cfg[s]
    /\ DOMAIN fs[k].cfg[call.section]
           = DOMAIN pre[k].cfg[call.section] \cup DOMAIN call.set_dict
    /\ \A o \in DOMAIN pre[k].cfg[call.section] \ DOMAIN call.set_dict :
           fs[k].cfg[call.section][o] = pre[k].cfg[call.section][o]

C2Case == call.op = "update_section" /\ call.enabled = "None" /\ res = "ok"

\* C2 as stated: a successful update_section leaves every option of the
\* option map, in the named section of each resolved file, at the value the
\* caller supplied, and changes nothing else in the file.
C2_SuppliedValueStored ==
    C2Case =>
        \A k \in Written :
            /\ C2Frame(k)
            /\ \A o \in DOMAIN call.set_dict :
                   fs[k].cfg[call.section][o] = call.set_dict[o]

\* C2 amended: a successful update_section leaves every option of the
\* option map, in the named section of each resolved file, at the supplied
\* value with its environment references expanded (os.path.expandvars);
\* every other option of the section and every other section of the file
\* is unchanged, and a non-empty option map resolves at least one file.
C2_ExpandedValueStored ==
    C2Case =>
        /\ call.set_dict # EmptyMap => Written # {}
        /\ \A k \in Written :
               /\ C2Frame(k)
               /\ \A o \in DOMAIN call.set_dict :
                      fs[k].cfg[call.section][o]
                          = Expandvars(env, call.set_dict[o])

\* a successful update of one option of a two-option section, from a value
\* holding an environment reference, in a file that has another section
C2_Witness ==
    /\ C2Case
    /\ env = "1"
    /\ \E k \in Written :
          /\ DOMAIN pre[k].cfg = {"s1", "s2"}
          /\ DOMAIN pre[k].cfg[call.section] \ DOMAIN call.set_dict # {}
          /\ \E o \in DOMAIN call.set_dict :
                /\ call.set_dict[o] = "$V"
                /\ o \in DOMAIN pre[k].cfg[call.section]
                /\ fs[k].cfg[call.section][o] # pre[k].cfg[call.section][o]

\* the section is already in the file that file_path names
C3Case ==
    /\ call.op = "add_section"
    /\ File(pre, call.file_path).exists
    /\ call.section \in DOMAIN File(pre, call.file_path).cfg

\* C3 as stated: add_section on a section that already exists in the target
\* file always fails with InvalidSection and leaves the file unchanged.
C3_AlwaysInvalidSection ==
    C3Case => (res = "InvalidSection" /\ NothingWritten)

\* C3 amended: add_section on a section that already exists in the target
\* file always fails and leaves the file unchanged; it fails with
\* InvalidSection when the option map passes the whitelist check and the
\* file is writable, with InvalidOption when the map has a key outside the
\* whitelist, and with NotFound when the file is not writable.
C3_ExistingSectionRejected ==
    C3Case =>
        /\ NothingWritten
        /\ res = IF OutsideWhitelist THEN "InvalidOption"
                 ELSE IF ~File(pre, call.file_path).writable THEN "NotFound"
                 ELSE "InvalidSection"

\* add_section with whitelisted options on a section present in a writable
\* file was rejected
C3_Witness ==
    /\ C3Case
    /\ call.set_dict # EmptyMap
    /\ ~OutsideWhitelist
    /\ File(pre, call.file_path).writable
    /\ res = "InvalidSection"
    /\ calls = <<"add_section">>

\* no file of the filesystem contains the section
C4Case ==
    /\ call.op = "update_section"
    /\ \A k \in AbsPaths : call.section \notin DOMAIN pre[k].cfg

\* the first existing writable file among the candidates of file_path
C4Resolved ==
    SelectSeq(file_paths(obj, call.file_path),
              LAMBDA p : File(pre, p).exists /\ File(pre, p).writable)

\* C4 as stated: update_section on a section that no file contains always
\* fails with NotFound and writes nothing, with or without an explicit
\* file path.
C4_AlwaysNotFound ==
    C4Case => (res = "NotFound" /\ NothingWritten)

\* C4 amended: update_section on a section that no file contains writes
\* nothing, and when its option map (with the enabled translation) passes
\* the whitelist check and, in the repo and compose variants, is not empty,
\* it fails: with NotFound when no explicit file path is given or the
\* explicit path resolves to no existing writable file, with ParseError
\* when the resolved file does not parse, and with InvalidSection when the
\* explicit path resolves to a file that lacks the section.
C4_MissingSectionRejected ==
    C4Case =>
        /\ NothingWritten
        /\ (ValidOptions(obj, EffMap) /\ (obj.cls = "base" \/ EffMap # EmptyMap))
               => res = IF call.file_path = NoPath \/ C4Resolved = <<>>
                        THEN "NotFound"
                        ELSE IF ~File(pre, Head(C4Resolved)).parses
                        THEN "ParseError"
                        ELSE "InvalidSection"

\* update_section with whitelisted options and an explicit path to a
\* writable file that lacks the section was rejected with InvalidSection
C4_Witness ==
    /\ C4Case
    /\ call.file_path # NoPath
    /\ call.set_dict # EmptyMap
    /\ ValidOptions(obj, EffMap)
    /\ C4Resolved # <<>>
    /\ res = "InvalidSection"

\* the sections the call has merged its option map into
C5Targets ==
    {t \in Written \X Sections :
        /\ t[2] \in DOMAIN fs[t[1]].cfg
        /\ (call.op = "update_all_sections" \/ t[2] = call.section)}

C5Case ==
    /\ obj.cls \in {"repo", "compose"}
    /\ call.op \in ThreeMutations
    /\ res = "ok"

\* the enabled option of section t[2] of file t[1] is stored as v
C5Stored(t, v) ==
    /\ "enabled" \in DOMAIN fs[t[1]].cfg[t[2]]
    /\ fs[t[1]].cfg[t[2]]["enabled"] = v

\* the enabled option of section s of file k is as it was before the call,
\* and absent when the section is new
C5Untouched(k, s) ==
    IF s \in DOMAIN pre[k].cfg /\ "enabled" \in DOMAIN pre[k].cfg[s]
    THEN C5Stored(<<k, s>>, pre[k].cfg[s]["enabled"])
    ELSE "enabled" \notin DOMAIN fs[k].cfg[s]

\* C5: in the repo-config and compose-config update_section, add_section
\* and update_all_sections, enabled=True stores enabled="1" in every section
\* the call merges into, enabled=False stores enabled="0", and enabled=None
\* adds nothing: the enabled key of every section is as it was (absent in a
\* new section) unless the caller's option map itself sets it.
C5_EnabledTranslation ==
    C5Case =>
        /\ call.enabled = "True" =>
               /\ call.op # "update_all_sections" => C5Targets # {}
               /\ \A t \in C5Targets : C5Stored(t, "1")
        /\ call.enabled = "False" =>
               /\ call.op # "update_all_sections" => C5Targets # {}
               /\ \A t \in C5Targets : C5Stored(t, "0")
        /\ call.enabled = "None" =>
               \A k \in AbsPaths : \A s \in DOMAIN fs[k].cfg :
                   IF <<k, s>> \in C5Targets /\ "enabled" \in DOMAIN call.set_dict
                   THEN C5Stored(<<k, s>>,
                                 IF call.op = "update_all_sections"
                                 THEN call.set_dict["enabled"]
                                 ELSE Expandvars(env, call.set_dict["enabled"]))
                   ELSE C5Untouched(k, s)

\* update_section(enabled=True) with an option map saying enabled=0, on a
\* section that had enabled=0, stored enabled=1
C5_Witness ==
    /\ C5Case
    /\ call.op = "update_section"
    /\ call.enabled = "True"
    /\ "enabled" \in DOMAIN call.set_dict
    /\ call.set_dict["enabled"] = "0"
    /\ \E t \in C5Targets :
          /\ "enabled" \in DOMAIN pre[t[1]].cfg[t[2]]
          /\ pre[t[1]].cfg[t[2]]["enabled"] = "0"
          /\ C5Stored(t, "1")

\* the files of the bound directory that have the configured extension, are
\* writable, parse and contain call.section
C6Matching ==
    {k \in AbsPaths :
        /\ obj.dir_path # ""
        /\ k[1] = obj.dir_path
        /\ pre[k].exists /\ pre[k].writable /\ pre[k].parses
        /\ (obj.file_extension # "" => Endswith(k[2], obj.file_extension))
        /\ call.section \in DOMAIN pre[k].cfg}

C6Case == call.op = "update_section" /\ call.file_path = NoPath

\* C6: update_section without an explicit file path, when it succeeds,
\* has merged the option map into the section of every writable file of the
\* bound directory that has the configured extension and contains the
\* section, not only the first; and it succeeds whenever a non-empty option
\* map passes the whitelist check and there is such a file.
C6_EveryMatchingFileUpdated ==
    C6Case =>
        /\ (ValidOptions(obj, EffMap) /\ EffMap # EmptyMap /\ C6Matching # {})
               => res = "ok"
        /\ res = "ok" =>
               \A k \in C6Matching :
                   /\ EffMap # EmptyMap => k \in Written
                   /\ \A o \in DOMAIN EffMap :
                          /\ o \in DOMAIN fs[k].cfg[call.section]
                          /\ fs[k].cfg[call.section][o]
                                 = Expandvars(env, EffMap[o])

\* a directory-wide update changed two files
C6_Witness ==
    /\ C6Case
    /\ res = "ok"
    /\ Cardinality(C6Matching) >= 2
    /\ \A k \in C6Matching : fs[k] # pre[k]

\* the files an explicit file_path may resolve to
C7Candidates ==
    {Key(file_paths(obj, call.file_path)[i]) :
        i \in DOMAIN file_paths(obj, call.file_path)}

C7Case == call.op = "update_section" /\ call.file_path # NoPath

\* C7: update_section with an explicit file path writes at most one file,
\* the one the path resolves to; every other file is left unchanged, also
\* when it contains a section of the same name.
C7_OnlyExplicitFile ==
    C7Case =>
        /\ Cardinality(Written) <= 1
        /\ Written \subseteq C7Candidates
        /\ \A k \in AbsPaths \ Written : fs[k] = pre[k]

\* an update through an explicit path changed its file and left alone a
\* writable .repo file of the bound directory that has the same section
C7_Witness ==
    /\ C7Case
    /\ res = "ok"
    /\ \E k \in Written : fs[k] # pre[k]
    /\ \E k \in AbsPaths \ Written :
          /\ k[1] = obj.dir_path
          /\ Endswith(k[2], ".repo")
          /\ pre[k].writable
          /\ call.section \in DOMAIN pre[k].cfg
          /\ fs[k] = pre[k]

\* document c holds the whole merge the call asks for
C8Complete(c) ==
    /\ call.op # "update_all_sections" => call.section \in DOMAIN c
    /\ \A s \in DOMAIN c :
           (call.op = "update_all_sections" \/ s = call.section) =>
               \A o \in DOMAIN EffMap :
                   /\ o \in DOMAIN c[s]
                   /\ c[s][o] = IF call.op = "update_all_sections"
                                THEN EffMap[o]
                                ELSE Expandvars(env, EffMap[o])

\* C8: update_section, add_section and update_all_sections open a file for
\* writing only after the whitelist check has passed and the complete
\* merge of the call has been made in memory: every document written to a
\* file holds the whole requested merge.
C8_NoPartialWrite ==
    call.op \in ThreeMutations =>
        \A i \in DOMAIN log :
            /\ ValidOptions(obj, EffMap)
            /\ C8Complete(log[i].cfg)

\* the candidates of call.file_path that exist before the call
C9Existing ==
    SelectSeq(file_paths(obj, call.file_path), LAMBDA p : File(pre, p).exists)

\* the candidates of call.file_path that are writable files before the call
C9Valid ==
    SelectSeq(file_paths(obj, call.file_path),
              LAMBDA p : File(pre, p).exists /\ File(pre, p).writable)

\* the file the call is about: the existing writable file the path resolves
\* to, and the path itself when no file is there
C9Target == IF C9Valid # <<>> THEN Head(C9Valid) ELSE call.file_path

C9Case ==
    /\ call.op = "add_or_update_section"
    /\ call.create
    /\ call.file_path # NoPath
    /\ call.enabled = "None"
    /\ ~OutsideWhitelist

\* the option map with name=<section> added when it has no name
C9Named(d) ==
    IF "name" \in DOMAIN d
    THEN d
    ELSE DictUpdate(d, [k \in {"name"} |-> call.section])

\* C9 as stated: add_or_update_section with whitelisted keys and
\* create_if_not_exists=True succeeds whether the file is missing, present
\* without the section or present with it; afterwards the file exists and
\* holds the section with every key of the option map at the supplied
\* value, and a file that was missing holds exactly that one section with
\* the option map plus name=<section>.
C9_AddOrUpdateSucceeds ==
    C9Case =>
        /\ res = "ok"
        /\ File(fs, C9Target).exists
        /\ call.section \in DOMAIN File(fs, C9Target).cfg
        /\ \A o \in DOMAIN call.set_dict :
               /\ o \in DOMAIN File(fs, C9Target).cfg[call.section]
               /\ File(fs, C9Target).cfg[call.section][o] = call.set_dict[o]
        /\ C9Existing = <<>> =>
               File(fs, C9Target).cfg
                   = [s \in {call.section} |-> C9Named(call.set_dict)]

\* the option map after os.path.expandvars
C9Expanded == [o \in DOMAIN call.set_dict |-> Expandvars(env, call.set_dict[o])]

\* C9 amended: add_or_update_section with whitelisted keys and
\* create_if_not_exists=True succeeds when the file is missing, and when
\* file_path resolves to a writable file that parses, with or without the
\* section; afterwards the file exists and holds the section with every
\* key of the option map at the supplied value after expansion of its
\* environment references, and a file that was missing has been created
\* and holds exactly that one section with the expanded option map plus
\* name=<section>.
C9_AddOrUpdateSucceedsExpanded ==
    (C9Case /\ (C9Existing = <<>> \/ (C9Valid # <<>> /\ File(pre, C9Target).parses)))
        =>
        /\ res = "ok"
        /\ File(fs, C9Target).exists
        /\ call.section \in DOMAIN File(fs, C9Target).cfg
        /\ \A o \in DOMAIN call.set_dict :
               /\ o \in DOMAIN File(fs, C9Target).cfg[call.section]
               /\ File(fs, C9Target).cfg[call.section][o] = C9Expanded[o]
        /\ C9Existing = <<>> =>
               File(fs, C9Target).cfg
                   = [s \in {call.section} |-> C9Named(C9Expanded)]

\* the file was missing and has been created with the one section
C9_Witness ==
    /\ C9Case
    /\ C9Existing = <<>>
    /\ call.set_dict # EmptyMap
    /\ "name" \notin DOMAIN call.set_dict
    /\ res = "ok"
    /\ calls = <<"update_section", "add_section">>
    /\ ~File(pre, call.file_path).exists
    /\ File(fs, call.file_path).exists

\* the update attempt of add_or_update_section, which is the first method
\* it calls, raised NotFound and the call may not create the file
C10Case ==
    /\ call.op = "add_or_update_section"
    /\ (~call.create \/ call.file_path = NoPath)
    /\ raised # <<>>
    /\ raised[1] = "NotFound"

\* C10: when the update attempt of add_or_update_section fails with
\* NotFound and create_if_not_exists is false or no file path is given,
\* NotFound reaches the caller, add_section is not attempted and no file is
\* created or modified.
C10_NotFoundPropagates ==
    C10Case =>
        /\ res = "NotFound"
        /\ calls = <<"update_section">>
        /\ NothingWritten

\* NotFound reached the caller of a call that was given the path of a
\* missing file and create_if_not_exists=False
C10_Witness ==
    /\ C10Case
    /\ ~call.create
    /\ call.file_path # NoPath
    /\ C9Existing = <<>>
    /\ res = "NotFound"

\* add_or_update_section has updated a section that was already in the
\* writable file its path resolves to
C11Case ==
    /\ call.op = "add_or_update_section"
    /\ call.file_path # NoPath
    /\ res = "ok"
    /\ C9Valid # <<>>
    /\ call.section \in DOMAIN File(pre, C9Target).cfg
    /\ calls = <<"update_section">>

\* C11: add_or_update_section injects name=<section> only where it creates
\* the section: when the section exists and is updated, a name option the
\* caller did not supply keeps the value it had.
C11_NamePreservedOnUpdate ==
    (C11Case /\ "name" \notin DOMAIN call.set_dict
             /\ "name" \in DOMAIN File(pre, C9Target).cfg[call.section])
        => File(fs, C9Target).cfg[call.section]["name"]
               = File(pre, C9Target).cfg[call.section]["name"]

\* an explicit file path names an existing file that is not writable
C16Case ==
    /\ call.op \in ThreeMutations
    /\ call.file_path # NoPath
    /\ File(pre, call.file_path).exists
    /\ ~File(pre, call.file_path).writable

\* C16: update_section, add_section and update_all_sections on an explicit
\* target file that exists but is not writable fail with PermissionDenied,
\* not with the NotFound of a missing file, and leave the file unchanged.
C16_PermissionDenied ==
    (C16Case /\ ValidOptions(obj, EffMap) /\ EffMap # EmptyMap)
        => (res = "PermissionDenied" /\ NothingWritten)

C13Case == call.op = "add_section" /\ res = "ok"

\* file k holds the section with exactly the entries of map d, its other
\* sections as before the call, and no other file has changed
C13RoundTrip(k, d) ==
    /\ fs[k].exists
    /\ DOMAIN fs[k].cfg = DOMAIN pre[k].cfg \cup {call.section}
    /\ fs[k].cfg[call.section] = d
    /\ \A s \in DOMAIN pre[k].cfg : fs[k].cfg[s] = pre[k].cfg[s]
    /\ \A j \in AbsPaths \ {k} : fs[j] = pre[j]

\* C13 as stated: after add_section(section, optionMap, file) succeeds, the
\* section read back from the file has exactly the entries of optionMap, and
\* every section the file had before the call is unchanged.
C13_ExactEntriesReadBack ==
    (C13Case /\ call.enabled = "None")
        => (Written # {} /\ \A k \in Written : C13RoundTrip(k, call.set_dict))

\* C13 amended: after add_section succeeds, the section read back from the
\* file it resolved has exactly the keys of the option map (with enabled
\* added as '1' or '0' when the enabled argument is given), each at the
\* supplied value with its environment references expanded; every section
\* the file had before the call, and every other file, is unchanged.
C13_ExpandedEntriesReadBack ==
    C13Case
        => /\ Written # {}
           /\ \A k \in Written :
                  C13RoundTrip(k, [o \in DOMAIN EffMap |->
                                      IF EffMap[o] = "$V" /\ env # "unset"
                                      THEN env ELSE EffMap[o]])

\* a two-option map with an environment reference was added as a new
\* section to a file that already had a section
C13_Witness ==
    /\ C13Case
    /\ env = "1"
    /\ Cardinality(DOMAIN call.set_dict) = 2
    /\ \E o \in DOMAIN call.set_dict : call.set_dict[o] = "$V"
    /\ \E k \in Written :
          /\ pre[k].exists
          /\ pre[k].cfg # EmptyCfg
          /\ call.section \in DOMAIN fs[k].cfg

\* C12: update_section is idempotent: a second call with the same section,
\* option map and target leaves every file as the first call left it.
C12_UpdateSectionIdempotent ==
    call.op = "update_section_again" => fs = pre

\* the second of two successful calls has rewritten a file in which the
\* first call had stored the expansion of "$V" as the section's name, a
\* value no initial file holds
C12_Witness ==
    /\ call.op = "update_section_again"
    /\ res = "ok"
    /\ env = "1"
    /\ "name" \in DOMAIN call.set_dict
    /\ call.set_dict["name"] = "$V"
    /\ \E k \in Written :
          /\ fs[k].cfg[call.section]["name"] = "1"
          /\ DOMAIN fs[k].cfg[call.section] \ DOMAIN call.set_dict # {}

\* the file the global configuration object is bound to
C14Bound ==
    IF call.file_path = NoPath THEN YUM_GLOBAL_CONFIG_FILE_PATH
    ELSE call.file_path

\* C14 as stated: constructing the global config when the file it is bound
\* to does not exist creates that file with exactly one section, main, with
\* no options; when the file exists construction leaves it unchanged.
C14_MissingFileCreated ==
    call.op = "TripleOYumGlobalConfig"
        => IF File(pre, C14Bound).exists
           THEN fs = pre
           ELSE File(fs, C14Bound) = IniFile(MainOnly)

\* C14 amended: constructing the global config without a file path, when
\* the default file /etc/yum.conf does not exist, creates that file with
\* exactly one section, main, with no options, and changes no other file;
\* when a file path is given, or the default file exists, construction
\* writes nothing.
C14_MissingDefaultFileCreated ==
    call.op = "TripleOYumGlobalConfig"
        => IF call.file_path = NoPath
              /\ ~File(pre, YUM_GLOBAL_CONFIG_FILE_PATH).exists
           THEN /\ res = "ok"
                /\ File(fs, YUM_GLOBAL_CONFIG_FILE_PATH) = IniFile(MainOnly)
                /\ \A k \in ConfPaths \ {Key(YUM_GLOBAL_CONFIG_FILE_PATH)} :
                       fs[k] = pre[k]
           ELSE NothingWritten

\* the default file was missing and the constructor has created it
C14_Witness ==
    /\ call.op = "TripleOYumGlobalConfig"
    /\ call.file_path = NoPath
    /\ ~File(pre, YUM_GLOBAL_CONFIG_FILE_PATH).exists
    /\ obj.cls = "global"
    /\ Written = {Key(YUM_GLOBAL_CONFIG_FILE_PATH)}

\* C15: a config object bound at construction to an explicit file path is
\* constructed only when that file exists and is writable; otherwise the
\* constructor raises NotFound or PermissionDenied and there is no object.
C15_BoundFileValidated ==
    (call.op \in {"TripleOYumGlobalConfig", "LegacyTripleOYumConfig"}
        /\ call.file_path # NoPath
        /\ ~validated_file_path(pre, call.file_path))
        => (res \in {"NotFound", "PermissionDenied"} /\ obj = NoObject)

\* the constructor was given an unsupported release or a URL that does not
\* match the pattern of its release
C17Case ==
    /\ call.op = "TripleOYumComposeRepoConfig"
    /\ \/ call.release \notin COMPOSE_REPOS_RELEASES
       \/ UrlGroups(call.release, call.compose_url) = <<>>

\* C17: constructing the compose generator with an unsupported release, or
\* with a URL that does not match the release's pattern, fails with
\* ComposeError before the manifest is fetched and before any file is
\* touched; the release is checked before the URL, so an unsupported
\* release fails before the URL is looked at.
C17_ValidatedBeforeFetch ==
    C17Case =>
        /\ res = "ComposeError"
        /\ raised = <<"ComposeError">>
        /\ obj = NoObject
        /\ NothingWritten
        /\ calls = IF call.release \notin COMPOSE_REPOS_RELEASES
                   THEN <<"1. validate release name">>
                   ELSE <<"1. validate release name", "2. Validate URL">>

\* both the release and the URL were bad, and the manifest could have been
\* fetched: the constructor stopped at the release
C17_Witness ==
    /\ C17Case
    /\ call.release = "invalid_release"
    /\ call.compose_url = "http://invalid_url.org"
    /\ call.response = "manifest"
    /\ res = "ComposeError"

\* C18: when the arguments are valid and the manifest cannot be obtained,
\* because the transport fails or because the body is not the expected JSON
\* document, construction fails with ComposeError and no other error kind.
C18_FetchFailureIsComposeError ==
    (/\ call.op = "TripleOYumComposeRepoConfig"
     /\ ~C17Case
     /\ call.response \in {"unreachable", "not_json", "no_payload"})
        => res = "ComposeError"

\* the variants a run of enable_compose_repos loops over
C19Variants ==
    IF call.variants # <<>>
    THEN {call.variants[i] : i \in DOMAIN call.variants}
    ELSE DOMAIN obj.compose_info.variants

C19Path(v) == obj.compose_info.variants[v][obj.arch]

C19File(v) == <<obj.dir_path, obj.compose_id \o "-" \o v \o ".repo">>

C19Case == call.op = "enable_compose_repos" /\ res = "ok"

\* C19: after enable_compose_repos succeeds, for every variant it loops
\* over: when the manifest has a repository path for the architecture, the
\* file <composeId>-<variant>.repo of the directory has the section named
\* by the lower-cased variant with name "<composeId> <variant>", baseurl
\* the pinned compose URL joined with the path, enabled=1 and gpgcheck=0;
\* when it has none, that file is neither created nor written.
C19_VariantSectionsWritten ==
    C19Case =>
        \A v \in C19Variants :
            IF C19Path(v) # ""
            THEN /\ fs[C19File(v)].exists
                 /\ Lower(v) \in DOMAIN fs[C19File(v)].cfg
                 /\ LET sec == fs[C19File(v)].cfg[Lower(v)]
                    IN  /\ {"name", "baseurl", "enabled", "gpgcheck"}
                               \subseteq DOMAIN sec
                        /\ sec["name"] = obj.compose_id \o " " \o v
                        /\ sec["baseurl"]
                               = Strip(obj.compose_url) \o "/"
                                     \o Strip(C19Path(v))
                        /\ sec["enabled"] = "1"
                        /\ sec["gpgcheck"] = "0"
            ELSE /\ fs[C19File(v)] = pre[C19File(v)]
                 /\ C19File(v) \notin Written

\* a run over both variants has created the file of one and skipped the
\* other, which has no path for the architecture
C19_Witness ==
    /\ C19Case
    /\ \E v, w \in C19Variants :
          /\ C19Path(v) # ""
          /\ ~pre[C19File(v)].exists
          /\ fs[C19File(v)].exists
          /\ C19Path(w) = ""

\* the variants of the second run that have a base URL, in loop order
C20Processed ==
    SelectSeq(IF call.variants # <<>> THEN call.variants ELSE VariantOrder,
              LAMBDA v : C19Path(v) # "")

\* C20: a second run of enable_compose_repos after a successful first run,
\* with the same manifest and arguments, succeeds and leaves every file of
\* the directory as the first run left it: for each variant it processes,
\* add_section raises InvalidSection, which is caught, and update_section
\* rewrites the section with the same option map.
C20_RerunLeavesDirectory ==
    (call.op = "enable_compose_repos_again" /\ call.first = "ok")
        => /\ res = "ok"
           /\ fs = pre
           /\ raised = [i \in DOMAIN C20Processed |-> "InvalidSection"]
           /\ \A i \in DOMAIN C20Processed :
                  \E j \in DOMAIN log :
                      /\ log[j].path = C19File(C20Processed[i])
                      /\ \A k \in DOMAIN AddDict(obj, C20Processed[i]) :
                             log[j].cfg[Lower(C20Processed[i])][k]
                                 = AddDict(obj, C20Processed[i])[k]

\* a second run with override has fallen back to update_section for two
\* variants and has disabled their sections in another file again
C20_Witness ==
    /\ call.op = "enable_compose_repos_again"
    /\ call.first = "ok"
    /\ res = "ok"
    /\ call.override_repos
    /\ Len(C20Processed) = 2
    /\ Len(log) > 2

\* a successful run with override_repos=True
C21Case ==
    /\ call.op = "enable_compose_repos"
    /\ res = "ok"
    /\ call.override_repos

\* file k is another writable file of the directory that had section s
C21Conflict(k, v) ==
    /\ k # C19File(v)
    /\ k[1] = obj.dir_path
    /\ pre[k].exists
    /\ pre[k].writable
    /\ Lower(v) \in DOMAIN pre[k].cfg

\* C21: after enable_compose_repos(override_repos=True) succeeds, for every
\* variant it wrote, every other writable repo file of the directory that
\* has a section of the lower-cased variant name has enabled=0 there and
\* every other key of that section as before, the section of the variant's
\* own compose file has enabled=1, and no file has lost a section.
C21_ConflictsDisabled ==
    C21Case =>
        /\ \A k \in ComposePaths : DOMAIN pre[k].cfg \subseteq DOMAIN fs[k].cfg
        /\ \A v \in C19Variants :
               C19Path(v) # "" =>
                   /\ fs[C19File(v)].cfg[Lower(v)]["enabled"] = "1"
                   /\ \A k \in ComposePaths :
                          C21Conflict(k, v) =>
                              /\ DOMAIN fs[k].cfg[Lower(v)]
                                     = DOMAIN pre[k].cfg[Lower(v)]
                                           \cup {"enabled"}
                              /\ \A o \in DOMAIN fs[k].cfg[Lower(v)] :
                                     fs[k].cfg[Lower(v)][o]
                                         = IF o = "enabled" THEN "0"
                                           ELSE pre[k].cfg[Lower(v)][o]

\* the run has disabled a section that was enabled in another file and has
\* another key
C21_Witness ==
    /\ C21Case
    /\ \E v \in C19Variants, k \in ComposePaths :
          /\ C19Path(v) # ""
          /\ C21Conflict(k, v)
          /\ DOMAIN pre[k].cfg[Lower(v)] = {"name", "enabled"}
          /\ pre[k].cfg[Lower(v)]["enabled"] = "1"
          /\ fs[k].cfg[Lower(v)]["enabled"] = "0"

\* the variants in the order the loop visits them
C22Loop == IF call.variants # <<>> THEN call.variants ELSE VariantOrder

\* the run was aborted by an error raised while a variant was written
C22Case ==
    /\ call.op = "enable_compose_repos"
    /\ res \notin {"ok", "ComposeError"}

\* the document the last write of the call left in file k
C22LastWritten(k) ==
    log[CHOOSE i \in DOMAIN log :
            /\ log[i].path = k
            /\ \A j \in DOMAIN log : log[j].path = k => j <= i].cfg

\* C22: enable_compose_repos has no rollback: when the write of one variant
\* fails the call ends with that error, the files of the variants before it
\* hold the sections written for them exactly as written, and no other
\* file, of a later variant or of a conflicting section, has been written.
C22_NoRollback ==
    C22Case =>
        \E i \in DOMAIN C22Loop :
            /\ C19Path(C22Loop[i]) # ""
            /\ res = raised[Len(raised)]
            /\ Written = {C19File(C22Loop[j]) : j \in
                             {n \in 1..(i - 1) : C19Path(C22Loop[n]) # ""}}
            /\ \A k \in Written : fs[k].cfg = C22LastWritten(k)
            /\ \A k \in ComposePaths \ Written : fs[k] = pre[k]
            /\ \A j \in 1..(i - 1) :
                   C19Path(C22Loop[j]) # "" =>
                       \A o \in DOMAIN AddDict(obj, C22Loop[j]) :
                           fs[C19File(C22Loop[j])].cfg[Lower(C22Loop[j])][o]
                               = AddDict(obj, C22Loop[j])[o]

\* the second variant failed with override requested: the first variant's
\* file is written and its conflicting section elsewhere is still enabled
C22_Witness ==
    /\ C22Case
    /\ call.override_repos
    /\ Written # {}
    /\ \E k \in ComposePaths \ Written :
          /\ "baseos" \in DOMAIN fs[k].cfg
          /\ fs[k].writable
          /\ fs[k].cfg["baseos"]["enabled"] = "1"

\* a requested variant is not a variant of the manifest
C30Case ==
    /\ call.op = "enable_compose_repos"
    /\ \E i \in DOMAIN call.variants :
          call.variants[i] \notin DOMAIN obj.compose_info.variants

\* C30: when any requested variant is not in the manifest,
\* enable_compose_repos fails with ComposeError and has written no file,
\* not even for the valid variants listed before the invalid one.
C30_VariantsValidatedFirst ==
    C30Case => (res = "ComposeError" /\ NothingWritten)

\* a list with a valid variant that has a path, then an invalid one, was
\* rejected
C30_Witness ==
    /\ C30Case
    /\ call.variants[1] \in DOMAIN obj.compose_info.variants
    /\ C19Path(call.variants[1]) # ""
    /\ ~pre[C19File(call.variants[1])].exists
    /\ res = "ComposeError"

C24Case == call.op = "update_all_sections" /\ res = "ok"

\* the file that file_path resolves to
C24Target == Key(Head(C4Resolved))

\* C24: a successful update_all_sections(optionMap, file) leaves the file
\* with the sections it had, each of them with every key of optionMap (and
\* enabled, when the enabled argument is given) at the supplied value and
\* every other key at its previous value; no other file is changed.  (With
\* an empty map and no enabled argument the compose variant returns at
\* once, whatever the file.)
C24_EverySectionMerged ==
    C24Case =>
        IF C4Resolved = <<>>
        THEN EffMap = EmptyMap /\ NothingWritten
        ELSE
        /\ Written \subseteq {C24Target}
        /\ (EffMap # EmptyMap /\ pre[C24Target].cfg # EmptyCfg)
               => Written = {C24Target}
        /\ \A k \in AbsPaths \ {C24Target} : fs[k] = pre[k]
        /\ DOMAIN fs[C24Target].cfg = DOMAIN pre[C24Target].cfg
        /\ \A s \in DOMAIN pre[C24Target].cfg :
               /\ DOMAIN fs[C24Target].cfg[s]
                      = DOMAIN pre[C24Target].cfg[s] \cup DOMAIN EffMap
               /\ \A o \in DOMAIN fs[C24Target].cfg[s] :
                      fs[C24Target].cfg[s][o]
                          = IF o \in DOMAIN EffMap THEN EffMap[o]
                            ELSE pre[C24Target].cfg[s][o]

\* a file of two sections was updated with a value that is an environment
\* reference, one section having a key that the map does not have
C24_Witness ==
    /\ C24Case
    /\ env = "1"
    /\ DOMAIN pre[C24Target].cfg = {"s1", "s2"}
    /\ \E o \in DOMAIN call.set_dict : call.set_dict[o] = "$V"
    /\ DOMAIN pre[C24Target].cfg["s1"] \ DOMAIN EffMap # {}
    /\ fs[C24Target].cfg["s2"] # pre[C24Target].cfg["s2"]

\* the given path, then the path joined to the bound directory
C27Candidates ==
    IF obj.dir_path # ""
    THEN <<Key(call.file_path),
           IF call.file_path.abs THEN Key(call.file_path)
           ELSE <<obj.dir_path, call.file_path.name>> >>
    ELSE <<Key(call.file_path)>>

\* the candidates that are existing writable files
C27Usable ==
    SelectSeq(C27Candidates, LAMBDA k : pre[k].exists /\ pre[k].writable)

\* C27: _read_config_file reports the first failing condition in a fixed
\* order: NotFound when neither the given path nor the path joined to the
\* bound directory is an existing writable file, else ParseError when the
\* file does not parse, else InvalidSection when a section is supplied and
\* the document lacks it; otherwise it returns the parsed document with the
\* resolved path.  It never writes.
C27_FirstFailureInOrder ==
    call.op = "_read_config_file" =>
        /\ NothingWritten
        /\ IF C27Usable = <<>>
           THEN res = "NotFound"
           ELSE IF ~pre[Head(C27Usable)].parses
           THEN res = "ParseError"
           ELSE IF call.section # ""
                   /\ call.section \notin DOMAIN pre[Head(C27Usable)].cfg
           THEN res = "InvalidSection"
           ELSE /\ res = "ok"
                /\ call.ret[1] = pre[Head(C27Usable)].cfg
                /\ Key(call.ret[2]) = Head(C27Usable)

\* a relative path that is no file of the working directory was resolved in
\* the bound directory, and the file there does not parse: ParseError, with
\* a section that the file does not have either
C27_Witness ==
    /\ call.op = "_read_config_file"
    /\ call.section # ""
    /\ ~call.file_path.abs
    /\ ~pre[Key(call.file_path)].exists
    /\ C27Usable # <<>>
    /\ ~pre[Head(C27Usable)].parses
    /\ res = "ParseError"

\* position of file name n in the directory listing
C28Position(n) == CHOOSE i \in DOMAIN NameOrder : NameOrder[i] = n

\* the file names of the bound directory that _get_config_files keeps
C28Kept ==
    {k[2] : k \in {j \in AbsPaths :
        /\ j[1] = obj.dir_path
        /\ pre[j].exists
        /\ (obj.file_extension = ".repo" => j[2] \in {"a.repo", "b.repo"})
        /\ pre[j].writable
        /\ pre[j].parses
        /\ call.section \in DOMAIN pre[j].cfg}}

\* C28: _get_config_files(section) returns exactly the files of the bound
\* directory that match the configured extension, are writable, parse and
\* have the section, each once and in directory-listing order; it never
\* raises and never writes, and returns nothing when no section or no
\* directory is set.
C28_MatchingFilesInOrder ==
    call.op = "_get_config_files" =>
        /\ res = "ok"
        /\ raised = <<>>
        /\ NothingWritten
        /\ IF call.section = "" \/ obj.dir_path = ""
           THEN call.ret = <<>>
           ELSE /\ {call.ret[i].name : i \in DOMAIN call.ret} = C28Kept
                /\ \A i \in DOMAIN call.ret :
                       call.ret[i].abs /\ call.ret[i].dir = obj.dir_path
                /\ \A i, j \in DOMAIN call.ret :
                       i < j => C28Position(call.ret[i].name)
                                    < C28Position(call.ret[j].name)

\* a directory with an unwritable file that has the section, searched with
\* an extension: one file returned, the unwritable one skipped
C28_Witness ==
    /\ call.op = "_get_config_files"
    /\ obj.file_extension = ".repo"
    /\ Len(call.ret) = 1
    /\ \E k \in AbsPaths :
          /\ k[1] = obj.dir_path
          /\ pre[k].exists
          /\ ~pre[k].writable
          /\ call.section \in DOMAIN pre[k].cfg

\* the writable files of the directory with the configured extension that
\* have the section
C29Matching ==
    {k \in AbsPaths :
        /\ k[1] = obj.dir_path
        /\ pre[k].exists /\ pre[k].writable /\ pre[k].parses
        /\ (obj.file_extension = ".repo" => k[2] \in {"a.repo", "b.repo"})
        /\ call.section \in DOMAIN pre[k].cfg}

\* the directory-wide lookup was made and more than one file has the section
C29Case ==
    /\ call.op = "update_section"
    /\ obj.conf_file_path = NoPath
    /\ "_read_config_file" \in {calls[i] : i \in DOMAIN calls}
    /\ Cardinality(C29Matching) > 1

\* the matching file that comes first in the directory listing
C29First ==
    CHOOSE k \in C29Matching :
        \A j \in C29Matching : C28Position(k[2]) <= C28Position(j[2])

\* C29: in the directory-wide lookup of the single-file engine, when more
\* than one writable file with the configured extension has the section,
\* the first of them in directory-listing order is used and a warning about
\* the duplicate is logged; update_section rewrites only that file, merging
\* the option map into the section, and leaves the other files unchanged.
C29_FirstMatchUpdated ==
    C29Case =>
        /\ res = "ok"
        /\ call.warnings >= 1
        /\ call.warnings = Cardinality(C29Matching) - 1
        /\ Written = {C29First}
        /\ \A k \in AbsPaths \ {C29First} : fs[k] = pre[k]
        /\ DOMAIN fs[C29First].cfg = DOMAIN pre[C29First].cfg
        /\ \A s \in DOMAIN pre[C29First].cfg \ {call.section} :
               fs[C29First].cfg[s] = pre[C29First].cfg[s]
        /\ \A o \in DOMAIN call.set_dict :
               fs[C29First].cfg[call.section][o] = call.set_dict[o]

\* three files had the section; the first was changed, and another one that
\* has a different value was left alone
C29_Witness ==
    /\ C29Case
    /\ Cardinality(C29Matching) = 3
    /\ fs[C29First] # pre[C29First]
    /\ \E k \in C29Matching \ {C29First} :
          pre[k].cfg[call.section] # pre[C29First].cfg[call.section]

\* the repos of the validated list
C26Repos == {call.repos[i] : i \in DOMAIN call.repos}

\* C26: _validate_tripleo_ci_testing raises InvalidArguments for every repo
\* list that has tripleo-ci-testing and a repo other than deps, ceph and
\* opstools, and accepts the lists that add only deps, ceph or opstools to
\* tripleo-ci-testing.
C26_CiTestingAlone ==
    (call.op = "_validate_tripleo_ci_testing"
        /\ "tripleo-ci-testing" \in C26Repos)
        => res = IF C26Repos \subseteq {"tripleo-ci-testing", "deps", "ceph",
                                        "opstools"}
                 THEN "ok" ELSE "InvalidArguments"

\* C25: when the fetch of the remote repo document returns a status other
\* than 200, a transport failure included, update_section, add_section and
\* add_or_update_section with from_url and
\* add_or_update_all_sections_from_url fail with UrlError, and no
\* configuration file is created or modified.
C25_BadStatusIsUrlError ==
    (call.op # "none" /\ call.status # 200)
        => /\ res = "UrlError"
           /\ raised = <<"UrlError">>
           /\ NothingWritten

\* add_or_update_all_sections_from_url was refused on a transport failure
\* with a URL and arguments that would have created a file
C25_Witness ==
    /\ call.op = "add_or_update_all_sections_from_url"
    /\ call.status = -1
    /\ call.file_path = NoPath
    /\ call.create
    /\ call.from_url = "https://host/b.repo"
    /\ ~pre[<<YUM_REPO_DIR, "b.repo">>].exists
    /\ res = "UrlError"

\* the listed files, as keys of the filesystem
C23Listed ==
    {Key(call.disable_repos[i]) : i \in DOMAIN call.disable_repos}

\* the construction or enable_compose_repos has failed
C23Failed == call.op # "none" /\ (call.init_res # "ok" \/ call.enable_res # "ok")

\* every section of the file has enabled=0
C23Disabled(k) == \A s \in DOMAIN fs[k].cfg : fs[k].cfg[s]["enabled"] = "0"

\* the positions of calls at which update_all_sections is entered
C23DisableSteps == {i \in DOMAIN calls : calls[i] = "update_all_sections"}

\* C23 as stated: in the enable-compose-repos flow of the CLI and of the
\* Ansible module, the listed files are disabled only after
\* enable_compose_repos has returned successfully, and if the construction
\* or enable_compose_repos fails none of the listed files is modified.
C23_ListedUntouchedOnFailure ==
    /\ C23DisableSteps # {} => call.enable_res = "ok"
    /\ C23Failed => \A k \in C23Listed : fs[k] = pre[k]

\* the repo files of the variants that enable_compose_repos was asked for
C23VariantFiles ==
    {<<YUM_REPO_DIR, RepoFilename(ComposeId, v)>> :
        v \in IF call.variants = <<>> THEN Variants
              ELSE {call.variants[i] : i \in DOMAIN call.variants}}

\* C23 amended: the disable step runs only after enable_compose_repos has
\* returned successfully, after every step of it, and when the whole flow
\* succeeds every listed file has enabled=0 in every section; if the
\* construction or enable_compose_repos fails, update_all_sections is not
\* called at all, so a listed file differs from what it was only if it is
\* the repo file of a requested variant, written by enable_compose_repos
\* itself before that failed.
C23_DisabledOnlyAfterEnable ==
    /\ C23DisableSteps # {} =>
          /\ call.enable_res = "ok"
          /\ \E j \in DOMAIN calls :
                /\ calls[j] = "enable_compose_repos"
                /\ \A i \in C23DisableSteps : j < i
    /\ (call.op # "none" /\ res = "ok") =>
          \A k \in C23Listed : C23Disabled(k)
    /\ C23Failed =>
          /\ C23DisableSteps = {}
          /\ \A k \in C23Listed : fs[k] # pre[k] => k \in C23VariantFiles

\* enable_compose_repos has failed at a later variant after other.repo was
\* listed, enabled, and left as it was
C23_Witness ==
    /\ call.op = "main"
    /\ call.init_res = "ok"
    /\ call.enable_res \notin {"ok", "none"}
    /\ <<YUM_REPO_DIR, "other.repo">> \in C23Listed
    /\ pre[<<YUM_REPO_DIR, "other.repo">>].exists
    /\ ~C23Disabled(<<YUM_REPO_DIR, "other.repo">>)
    /\ fs # pre

====
